---- MODULE Spec2Model ----
(***************************************************************************)
(* Business rules validation engine of the catering-estimate service:      *)
(* src/src/business/standards.py, validators.py and rules.py.              *)
(*                                                                         *)
(* An order is the Python dict handed to BusinessRulesEngine.validate_order *)
(* by reference.  Every value of the dict is a tagged record, so that a    *)
(* missing key, a JSON null, a number and a string stay distinguishable:   *)
(*   tag = "absent"   the key is not in the dict                           *)
(*   tag = "null"     the key holds None                                   *)
(*   tag = "int"      the key holds the integer n                          *)
(*   tag = "str"      the key holds the string s                           *)
(*   tag = "datetime" the key holds a datetime, n hours after the epoch    *)
(* Time is counted in hours from the epoch 2025-06-01 00:00.               *)
(***************************************************************************)
EXTENDS Integers, Sequences, FiniteSets, TLC

VARIABLES
    order,            \* the order dict (one object, shared by every call on it)
    now,              \* what datetime.now() returns, in hours after the epoch
    returned,         \* what the completed validate_order calls gave their callers
    stub,             \* outcome of the validators loop when the engine runs over stub validators
    pc,               \* SpecConc: position of each in-flight validate_order call
    idx,              \* SpecConc: index of the next validator in each call's loop
    all_validations,  \* SpecConc: the all_validations list of each call frame
    result,           \* SpecConc: the Report each finished call returned
    request,          \* SpecEstimate: user_input and context of each create_complete_estimate call
    at,               \* SpecEstimate: the await each call is suspended at
    session_id,       \* SpecEstimate: the session_id local of each call
    order_number,     \* SpecEstimate: the order_number local of each call
    analysis,         \* SpecEstimate: the conversation_analysis local of each call
    invoked,          \* SpecEstimate: the experts each call has called, in order
    raised,           \* SpecEstimate: the exception an outside service raised in each call
    expert_result,    \* SpecEstimate: what process_estimate_request gave create_complete_estimate
    estimate_result,  \* SpecEstimate: what create_complete_estimate gave its caller
    timestamp,        \* SpecEstimate: the last int(datetime.now().timestamp()) read
    processing_estimates,  \* EstimateService.processing_estimates
    completed_estimates,   \* EstimateService.completed_estimates
    _stats,           \* EstimateService._stats
    _initialized,     \* GoogleSheetsService._initialized
    drive_files,      \* the copies of the template that exist in Google Drive
    pdf_files,        \* the PDF files written by PDFService
    send_at,          \* SpecClaude: where each send_message call is
    retry_count,      \* SpecClaude: the retry_count local of each call
    attempts,         \* SpecClaude: how each API attempt of each call ended, in order
    send_result,      \* SpecClaude: what send_message gave its caller
    _request_count,   \* ClaudeService._request_count
    _error_count      \* ClaudeService._error_count

engine_vars == <<order, now, returned, stub, pc, idx, all_validations, result>>
svc_vars == <<request, at, session_id, order_number, analysis, invoked, raised, expert_result,
              estimate_result, timestamp, processing_estimates, completed_estimates,
              _stats, _initialized, drive_files, pdf_files>>
claude_vars == <<send_at, retry_count, attempts, send_result, _request_count, _error_count>>
vars == <<engine_vars, svc_vars, claude_vars>>

(***************************************************************************)
(* Python values                                                           *)
(***************************************************************************)
Absent == [tag |-> "absent", n |-> 0, s |-> ""]
PyNone == [tag |-> "null", n |-> 0, s |-> ""]
PyInt(n) == [tag |-> "int", n |-> n, s |-> ""]
PyStr(s) == [tag |-> "str", n |-> 0, s |-> s]
DateTime(h) == [tag |-> "datetime", n |-> h, s |-> ""]

\* dict.get(key) without its default: a missing key reads as None
Get_nodefault(v, default) == IF v.tag = "absent" THEN PyNone ELSE v

\* dict.get(key, default) on the value v stored under key
Get(v, default) == IF v.tag = "absent" THEN default ELSE v

\* Names of services are sequences of characters (Cyrillic letters written in
\* Latin transliteration), so that lower() and the substring test are computed.
AbsentName == [tag |-> "absent", chars |-> <<>>]
NullName == [tag |-> "null", chars |-> <<>>]
Name(cs) == [tag |-> "str", chars |-> cs]

Lowercase ==
    [c \in {"O", "F", "I", "C", "A", "N", "T", "D", "S", "V", "K"} |->
        CASE c = "O" -> "o" [] c = "F" -> "f" [] c = "I" -> "i" [] c = "C" -> "c"
          [] c = "A" -> "a" [] c = "N" -> "n" [] c = "T" -> "t" [] c = "D" -> "d"
          [] c = "S" -> "s" [] c = "V" -> "v" [] c = "K" -> "k"]

\* the name compared as it is, without .lower()
lower_forgotten(cs) == cs

\* str.lower()
lower(cs) == [i \in DOMAIN cs |-> IF cs[i] \in DOMAIN Lowercase THEN Lowercase[cs[i]] ELSE cs[i]]

\* sub in cs
Contains(sub, cs) ==
    \E i \in 0..(Len(cs) - Len(sub)) : SubSeq(cs, i + 1, i + Len(sub)) = sub

\* the keyword 'официант' of ServiceValidator
WAITER_KEYWORD == <<"o", "f", "i", "c", "i", "a", "n", "t">>

(***************************************************************************)
(* standards.py                                                            *)
(***************************************************************************)
INFO == "info"
WARNING == "warning"
ERROR == "error"
CRITICAL == "critical"
ValidationLevel == {INFO, WARNING, ERROR, CRITICAL}

MIN_ORDER_AMOUNT == 10000

PORTION_STANDARDS ==
    [t \in {"coffee_break", "buffet", "banquet"} |->
        CASE t = "coffee_break" -> [min |-> 250, max |-> 300, optimal |-> 275]
          [] t = "buffet" -> [min |-> 250, max |-> 423, optimal |-> 335]
          [] t = "banquet" -> [min |-> 600, max |-> 1000, optimal |-> 800]]

WAITER_RATIO_SIMPLE == 30
WAITER_RATIO_COMPLEX == 15

TIMING_REQUIREMENTS ==
    [k \in {"no_service", "service_standard", "service_premium"} |->
        CASE k = "no_service" -> 24
          [] k = "service_standard" -> 48
          [] k = "service_premium" -> 72]

COST_PER_GUEST_RANGES ==
    [t \in {"coffee_break", "buffet", "banquet"} |->
        CASE t = "coffee_break" -> [min |-> 1150, max |-> 1700]
          [] t = "buffet" -> [min |-> 2300, max |-> 3300]
          [] t = "banquet" -> [min |-> 4700, max |-> 8600]]

\* the fallback taken from another row of the table
StandardFor_banquet(table, event_type) ==
    IF event_type.tag = "str" /\ event_type.s \in DOMAIN table
    THEN table[event_type.s]
    ELSE table["banquet"]

\* SOME_TABLE.get(event_type, SOME_TABLE['buffet'])
StandardFor(table, event_type) ==
    IF event_type.tag = "str" /\ event_type.s \in DOMAIN table
    THEN table[event_type.s]
    ELSE table["buffet"]

\* A message or a recommendation: the text template and the numbers formatted into it
Text(id, a, b, s) == [id |-> id, a |-> a, b |-> b, s |-> s]
NoText == Text("None", 0, 0, "")

\* ValidationResult(level, message, field, recommendation, reference_case)
ValidationResult(level, message, field, recommendation, reference_case) ==
    [level |-> level, message |-> message, field |-> field,
     recommendation |-> recommendation, reference_case |-> reference_case]

(***************************************************************************)
(* validators.py.  A validator receives the order by reference, so each    *)
(* returns what it returns (results), the exception it raised ("" if none) *)
(* and the order dict as it leaves it (order_data).                        *)
(***************************************************************************)
NoExc == ""
Raise(e, o) == [results |-> <<>>, exc |-> e, order_data |-> o]
Return(rs, o) == [results |-> rs, exc |-> NoExc, order_data |-> o]

\* order_data.get(section, {}): the section, or an empty dict when the key is missing
EmptyOrderInfo == [tag |-> "dict", guests |-> Absent, event_type |-> Absent, date |-> Absent]
EmptyTotals == [tag |-> "dict", total_weight |-> Absent, total_cost |-> Absent]
EmptyList == [tag |-> "list", items |-> <<>>]

\* .get(key, ...) on a section that is None raises AttributeError
NoGet(section) == section.tag = "null"
AttributeErrorGet == "AttributeError: 'NoneType' object has no attribute 'get'"

\* format(x / y, '.0f'): round to nearest, ties to even (y > 0)
Round0(x, y) ==
    LET q == x \div y
        r == x % y
    IN  IF 2 * r < y THEN q
        ELSE IF 2 * r > y THEN q + 1
        ELSE IF q % 2 = 0 THEN q ELSE q + 1

Max(a, b) == IF a >= b THEN a ELSE b
Min(a, b) == IF a <= b THEN a ELSE b

\* the absolute thresholds compared with <= and >=
PortionValidator_inclusive(o) ==
    LET order_info == Get(o.order_info, EmptyOrderInfo)
        totals == Get(o.totals, EmptyTotals)
    IN  IF NoGet(order_info) \/ NoGet(totals) THEN Raise(AttributeErrorGet, o)
        ELSE
        LET guests == Get(order_info.guests, PyInt(0))
            event_type == Get(order_info.event_type, PyStr("buffet"))
            total_weight == Get(totals.total_weight, PyInt(0))
        IN  IF guests.tag # "int" THEN Raise("TypeError: guests <= 0", o)
            ELSE IF guests.n <= 0
            THEN Return(<<ValidationResult(ERROR, Text("guests must be positive", 0, 0, ""),
                            "guests", Text("set the number of guests", 0, 0, ""), "None")>>, o)
            ELSE IF total_weight.tag # "int" THEN Raise("TypeError: total_weight / guests", o)
            ELSE
            LET w == total_weight.n
                g == guests.n
                grams == Round0(w, g)
                standards == StandardFor(PORTION_STANDARDS, event_type)
            IN  IF w <= 250 * g
                THEN Return(<<ValidationResult(CRITICAL, Text("not enough food", grams, 250, ""),
                                "portion_size", Text("raise to 250g per guest", 0, 0, ""), "None")>>, o)
                ELSE IF w >= 750 * g
                THEN Return(<<ValidationResult(WARNING, Text("too much food", grams, 750, ""),
                                "portion_size", Text("consider smaller portions", 0, 0, ""), "None")>>, o)
                ELSE IF standards.min * g <= w /\ w <= standards.max * g
                THEN Return(<<ValidationResult(INFO, Text("optimal portion", grams, 0, event_type.s),
                                "portion_size", Text("portion meets the standards", 0, 0, ""),
                                "P-39454")>>, o)
                ELSE Return(<<ValidationResult(WARNING, Text("portion outside standards", grams, 0, event_type.s),
                                "portion_size",
                                Text("optimal range", standards.min, standards.max, ""), "None")>>, o)

PortionValidator(o) ==
    LET order_info == Get(o.order_info, EmptyOrderInfo)
        totals == Get(o.totals, EmptyTotals)
    IN  IF NoGet(order_info) \/ NoGet(totals) THEN Raise(AttributeErrorGet, o)
        ELSE
        LET guests == Get(order_info.guests, PyInt(0))
            event_type == Get(order_info.event_type, PyStr("buffet"))
            total_weight == Get(totals.total_weight, PyInt(0))
        IN  IF guests.tag # "int" THEN Raise("TypeError: guests <= 0", o)
            ELSE IF guests.n <= 0
            THEN Return(<<ValidationResult(ERROR, Text("guests must be positive", 0, 0, ""),
                            "guests", Text("set the number of guests", 0, 0, ""), "None")>>, o)
            ELSE IF total_weight.tag # "int" THEN Raise("TypeError: total_weight / guests", o)
            ELSE
            LET w == total_weight.n
                g == guests.n
                grams == Round0(w, g)
                standards == StandardFor(PORTION_STANDARDS, event_type)
            IN  IF w < 250 * g
                THEN Return(<<ValidationResult(CRITICAL, Text("not enough food", grams, 250, ""),
                                "portion_size", Text("raise to 250g per guest", 0, 0, ""), "None")>>, o)
                ELSE IF w > 750 * g
                THEN Return(<<ValidationResult(WARNING, Text("too much food", grams, 750, ""),
                                "portion_size", Text("consider smaller portions", 0, 0, ""), "None")>>, o)
                ELSE IF standards.min * g <= w /\ w <= standards.max * g
                THEN Return(<<ValidationResult(INFO, Text("optimal portion", grams, 0, event_type.s),
                                "portion_size", Text("portion meets the standards", 0, 0, ""),
                                "P-39454")>>, o)
                ELSE Return(<<ValidationResult(WARNING, Text("portion outside standards", grams, 0, event_type.s),
                                "portion_size",
                                Text("optimal range", standards.min, standards.max, ""), "None")>>, o)

\* the minimum order check without its "return results": the per-guest check follows
CostValidator_noreturn(o) ==
    LET order_info == Get(o.order_info, EmptyOrderInfo)
        totals == Get(o.totals, EmptyTotals)
    IN  IF NoGet(order_info) \/ NoGet(totals) THEN Raise(AttributeErrorGet, o)
        ELSE
        LET guests == Get(order_info.guests, PyInt(0))
            event_type == Get(order_info.event_type, PyStr("buffet"))
            total_cost == Get(totals.total_cost, PyInt(0))
        IN  IF total_cost.tag # "int" THEN Raise("TypeError: total_cost < MIN_ORDER_AMOUNT", o)
            ELSE
            LET results ==
                    IF total_cost.n < MIN_ORDER_AMOUNT
                    THEN <<ValidationResult(ERROR, Text("order below minimum", total_cost.n, MIN_ORDER_AMOUNT, ""),
                            "total_cost", Text("raise the order to", MIN_ORDER_AMOUNT, 0, ""), "None")>>
                    ELSE <<>>
            IN
            IF guests.tag # "int" THEN Raise("TypeError: guests > 0", o)
            ELSE IF guests.n > 0
            THEN
                LET c == total_cost.n
                    g == guests.n
                    per_guest == Round0(c, g)
                    cost_range == StandardFor(COST_PER_GUEST_RANGES, event_type)
                IN  \* cost_per_guest < cost_range['min'] * 0.7
                    IF 10 * c < 7 * cost_range.min * g
                    THEN Return(results \o <<ValidationResult(WARNING, Text("low cost per guest", per_guest, 0, ""),
                                    "cost_per_guest",
                                    Text("expected range", cost_range.min, cost_range.max, ""), "None")>>, o)
                    \* cost_per_guest > cost_range['max'] * 1.5
                    ELSE IF 2 * c > 3 * cost_range.max * g
                    THEN Return(results \o <<ValidationResult(WARNING, Text("high cost per guest", per_guest, 0, ""),
                                    "cost_per_guest", Text("check the calculation", 0, 0, ""), "None")>>, o)
                    ELSE Return(results \o <<ValidationResult(INFO, Text("order amount meets requirements", c, 0, ""),
                                    "total_cost", Text("cost within the norm", 0, 0, ""), "None")>>, o)
            ELSE Return(results, o)

\* the minimum order check reporting a WARNING
CostValidator_warnmin(o) ==
    LET order_info == Get(o.order_info, EmptyOrderInfo)
        totals == Get(o.totals, EmptyTotals)
    IN  IF NoGet(order_info) \/ NoGet(totals) THEN Raise(AttributeErrorGet, o)
        ELSE
        LET guests == Get(order_info.guests, PyInt(0))
            event_type == Get(order_info.event_type, PyStr("buffet"))
            total_cost == Get(totals.total_cost, PyInt(0))
        IN  IF total_cost.tag # "int" THEN Raise("TypeError: total_cost < MIN_ORDER_AMOUNT", o)
            ELSE IF total_cost.n < MIN_ORDER_AMOUNT
            THEN Return(<<ValidationResult(WARNING, Text("order below minimum", total_cost.n, MIN_ORDER_AMOUNT, ""),
                            "total_cost", Text("raise the order to", MIN_ORDER_AMOUNT, 0, ""), "None")>>, o)
            ELSE IF guests.tag # "int" THEN Raise("TypeError: guests > 0", o)
            ELSE IF guests.n > 0
            THEN
                LET c == total_cost.n
                    g == guests.n
                    per_guest == Round0(c, g)
                    cost_range == StandardFor(COST_PER_GUEST_RANGES, event_type)
                IN  \* cost_per_guest < cost_range['min'] * 0.7
                    IF 10 * c < 7 * cost_range.min * g
                    THEN Return(<<ValidationResult(WARNING, Text("low cost per guest", per_guest, 0, ""),
                                    "cost_per_guest",
                                    Text("expected range", cost_range.min, cost_range.max, ""), "None")>>, o)
                    \* cost_per_guest > cost_range['max'] * 1.5
                    ELSE IF 2 * c > 3 * cost_range.max * g
                    THEN Return(<<ValidationResult(WARNING, Text("high cost per guest", per_guest, 0, ""),
                                    "cost_per_guest", Text("check the calculation", 0, 0, ""), "None")>>, o)
                    ELSE Return(<<ValidationResult(INFO, Text("order amount meets requirements", c, 0, ""),
                                    "total_cost", Text("cost within the norm", 0, 0, ""), "None")>>, o)
            ELSE Return(<<>>, o)

\* the per-guest check with the bare range, without the factors 0.7 and 1.5
CostValidator_permissive(o) ==
    LET order_info == Get(o.order_info, EmptyOrderInfo)
        totals == Get(o.totals, EmptyTotals)
    IN  IF NoGet(order_info) \/ NoGet(totals) THEN Raise(AttributeErrorGet, o)
        ELSE
        LET guests == Get(order_info.guests, PyInt(0))
            event_type == Get(order_info.event_type, PyStr("buffet"))
            total_cost == Get(totals.total_cost, PyInt(0))
        IN  IF total_cost.tag # "int" THEN Raise("TypeError: total_cost < MIN_ORDER_AMOUNT", o)
            ELSE IF total_cost.n < MIN_ORDER_AMOUNT
            THEN Return(<<ValidationResult(ERROR, Text("order below minimum", total_cost.n, MIN_ORDER_AMOUNT, ""),
                            "total_cost", Text("raise the order to", MIN_ORDER_AMOUNT, 0, ""), "None")>>, o)
            ELSE IF guests.tag # "int" THEN Raise("TypeError: guests > 0", o)
            ELSE IF guests.n > 0
            THEN
                LET c == total_cost.n
                    g == guests.n
                    per_guest == Round0(c, g)
                    cost_range == StandardFor(COST_PER_GUEST_RANGES, event_type)
                IN  \* cost_per_guest < cost_range['min'] * 0.7
                    IF c < cost_range.min * g
                    THEN Return(<<ValidationResult(WARNING, Text("low cost per guest", per_guest, 0, ""),
                                    "cost_per_guest",
                                    Text("expected range", cost_range.min, cost_range.max, ""), "None")>>, o)
                    \* cost_per_guest > cost_range['max'] * 1.5
                    ELSE IF c > cost_range.max * g
                    THEN Return(<<ValidationResult(WARNING, Text("high cost per guest", per_guest, 0, ""),
                                    "cost_per_guest", Text("check the calculation", 0, 0, ""), "None")>>, o)
                    ELSE Return(<<ValidationResult(INFO, Text("order amount meets requirements", c, 0, ""),
                                    "total_cost", Text("cost within the norm", 0, 0, ""), "None")>>, o)
            ELSE Return(<<>>, o)

\* the low cost-per-guest WARNING tagged 'total_cost'
CostValidator_totalcost(o) ==
    LET order_info == Get(o.order_info, EmptyOrderInfo)
        totals == Get(o.totals, EmptyTotals)
    IN  IF NoGet(order_info) \/ NoGet(totals) THEN Raise(AttributeErrorGet, o)
        ELSE
        LET guests == Get(order_info.guests, PyInt(0))
            event_type == Get(order_info.event_type, PyStr("buffet"))
            total_cost == Get(totals.total_cost, PyInt(0))
        IN  IF total_cost.tag # "int" THEN Raise("TypeError: total_cost < MIN_ORDER_AMOUNT", o)
            ELSE IF total_cost.n < MIN_ORDER_AMOUNT
            THEN Return(<<ValidationResult(ERROR, Text("order below minimum", total_cost.n, MIN_ORDER_AMOUNT, ""),
                            "total_cost", Text("raise the order to", MIN_ORDER_AMOUNT, 0, ""), "None")>>, o)
            ELSE IF guests.tag # "int" THEN Raise("TypeError: guests > 0", o)
            ELSE IF guests.n > 0
            THEN
                LET c == total_cost.n
                    g == guests.n
                    per_guest == Round0(c, g)
                    cost_range == StandardFor(COST_PER_GUEST_RANGES, event_type)
                IN  \* cost_per_guest < cost_range['min'] * 0.7
                    IF 10 * c < 7 * cost_range.min * g
                    THEN Return(<<ValidationResult(WARNING, Text("low cost per guest", per_guest, 0, ""),
                                    "total_cost",
                                    Text("expected range", cost_range.min, cost_range.max, ""), "None")>>, o)
                    \* cost_per_guest > cost_range['max'] * 1.5
                    ELSE IF 2 * c > 3 * cost_range.max * g
                    THEN Return(<<ValidationResult(WARNING, Text("high cost per guest", per_guest, 0, ""),
                                    "cost_per_guest", Text("check the calculation", 0, 0, ""), "None")>>, o)
                    ELSE Return(<<ValidationResult(INFO, Text("order amount meets requirements", c, 0, ""),
                                    "total_cost", Text("cost within the norm", 0, 0, ""), "None")>>, o)
            ELSE Return(<<>>, o)

CostValidator(o) ==
    LET order_info == Get(o.order_info, EmptyOrderInfo)
        totals == Get(o.totals, EmptyTotals)
    IN  IF NoGet(order_info) \/ NoGet(totals) THEN Raise(AttributeErrorGet, o)
        ELSE
        LET guests == Get(order_info.guests, PyInt(0))
            event_type == Get(order_info.event_type, PyStr("buffet"))
            total_cost == Get(totals.total_cost, PyInt(0))
        IN  IF total_cost.tag # "int" THEN Raise("TypeError: total_cost < MIN_ORDER_AMOUNT", o)
            ELSE IF total_cost.n < MIN_ORDER_AMOUNT
            THEN Return(<<ValidationResult(ERROR, Text("order below minimum", total_cost.n, MIN_ORDER_AMOUNT, ""),
                            "total_cost", Text("raise the order to", MIN_ORDER_AMOUNT, 0, ""), "None")>>, o)
            ELSE IF guests.tag # "int" THEN Raise("TypeError: guests > 0", o)
            ELSE IF guests.n > 0
            THEN
                LET c == total_cost.n
                    g == guests.n
                    per_guest == Round0(c, g)
                    cost_range == StandardFor(COST_PER_GUEST_RANGES, event_type)
                IN  \* cost_per_guest < cost_range['min'] * 0.7
                    IF 10 * c < 7 * cost_range.min * g
                    THEN Return(<<ValidationResult(WARNING, Text("low cost per guest", per_guest, 0, ""),
                                    "cost_per_guest",
                                    Text("expected range", cost_range.min, cost_range.max, ""), "None")>>, o)
                    \* cost_per_guest > cost_range['max'] * 1.5
                    ELSE IF 2 * c > 3 * cost_range.max * g
                    THEN Return(<<ValidationResult(WARNING, Text("high cost per guest", per_guest, 0, ""),
                                    "cost_per_guest", Text("check the calculation", 0, 0, ""), "None")>>, o)
                    ELSE Return(<<ValidationResult(INFO, Text("order amount meets requirements", c, 0, ""),
                                    "total_cost", Text("cost within the norm", 0, 0, ""), "None")>>, o)
            ELSE Return(<<>>, o)

\* the loop of ServiceValidator over services[i..]: the waiter count, or the exception
RECURSIVE CountWaiters(_, _, _)
CountWaiters(services, i, waiter_count) ==
    IF i > Len(services) THEN [count |-> waiter_count, exc |-> NoExc]
    ELSE
    LET service == services[i]
        name == IF service.name.tag = "absent" THEN Name(<<>>) ELSE service.name
        quantity == Get(service.quantity, PyInt(0))
    IN  IF name.tag # "str"
        THEN [count |-> waiter_count, exc |-> "AttributeError: 'NoneType' object has no attribute 'lower'"]
        ELSE IF Contains(WAITER_KEYWORD, lower(name.chars))
        THEN IF quantity.tag # "int"
             THEN [count |-> waiter_count, exc |-> "TypeError: waiter_count += quantity"]
             ELSE CountWaiters(services, i + 1, waiter_count + quantity.n)
        ELSE CountWaiters(services, i + 1, waiter_count)

\* ServiceValidator reporting on every waiter count but zero
ServiceValidator_anycount(o) ==
    LET order_info == Get(o.order_info, EmptyOrderInfo)
        services == Get(o.services, EmptyList)
    IN  IF NoGet(order_info) THEN Raise(AttributeErrorGet, o)
        ELSE IF services.tag # "list" THEN Raise("TypeError: 'NoneType' object is not iterable", o)
        ELSE
        LET guests == Get(order_info.guests, PyInt(0))
            counted == CountWaiters(services.items, 1, 0)
            waiter_count == counted.count
        IN  IF counted.exc # NoExc THEN Raise(counted.exc, o)
            ELSE IF waiter_count # 0
            THEN IF guests.tag # "int" THEN Raise("TypeError: guests // WAITER_RATIO_SIMPLE", o)
                 ELSE
                 LET min_waiters == Max(1, guests.n \div WAITER_RATIO_SIMPLE)
                     max_waiters == Max(2, guests.n \div WAITER_RATIO_COMPLEX)
                 IN  IF waiter_count < min_waiters
                     THEN Return(<<ValidationResult(WARNING, Text("too few waiters", waiter_count, guests.n, ""),
                                     "waiter_count", Text("at least waiters", min_waiters, 0, ""), "None")>>, o)
                     ELSE IF waiter_count > max_waiters
                     THEN Return(<<ValidationResult(WARNING, Text("too many waiters", waiter_count, guests.n, ""),
                                     "waiter_count", Text("optimal number", min_waiters, max_waiters, ""),
                                     "None")>>, o)
                     ELSE Return(<<ValidationResult(INFO, Text("waiter count optimal", waiter_count, 0, ""),
                                     "waiter_count", Text("staff meets requirements", 0, 0, ""), "None")>>, o)
            ELSE Return(<<>>, o)

ServiceValidator(o) ==
    LET order_info == Get(o.order_info, EmptyOrderInfo)
        services == Get(o.services, EmptyList)
    IN  IF NoGet(order_info) THEN Raise(AttributeErrorGet, o)
        ELSE IF services.tag # "list" THEN Raise("TypeError: 'NoneType' object is not iterable", o)
        ELSE
        LET guests == Get(order_info.guests, PyInt(0))
            counted == CountWaiters(services.items, 1, 0)
            waiter_count == counted.count
        IN  IF counted.exc # NoExc THEN Raise(counted.exc, o)
            ELSE IF waiter_count > 0
            THEN IF guests.tag # "int" THEN Raise("TypeError: guests // WAITER_RATIO_SIMPLE", o)
                 ELSE
                 LET min_waiters == Max(1, guests.n \div WAITER_RATIO_SIMPLE)
                     max_waiters == Max(2, guests.n \div WAITER_RATIO_COMPLEX)
                 IN  IF waiter_count < min_waiters
                     THEN Return(<<ValidationResult(WARNING, Text("too few waiters", waiter_count, guests.n, ""),
                                     "waiter_count", Text("at least waiters", min_waiters, 0, ""), "None")>>, o)
                     ELSE IF waiter_count > max_waiters
                     THEN Return(<<ValidationResult(WARNING, Text("too many waiters", waiter_count, guests.n, ""),
                                     "waiter_count", Text("optimal number", min_waiters, max_waiters, ""),
                                     "None")>>, o)
                     ELSE Return(<<ValidationResult(INFO, Text("waiter count optimal", waiter_count, 0, ""),
                                     "waiter_count", Text("staff meets requirements", 0, 0, ""), "None")>>, o)
            ELSE Return(<<>>, o)

\* datetime.strptime(s, '%Y-%m-%d') succeeds on these strings; the value is the day after the epoch
DayOf ==
    [s \in {"2025-06-01", "2025-06-02", "2025-06-03", "2025-06-04", "2025-06-05"} |->
        CASE s = "2025-06-01" -> 0 [] s = "2025-06-02" -> 1 [] s = "2025-06-03" -> 2
          [] s = "2025-06-04" -> 3 [] s = "2025-06-05" -> 4]

\* bool(v) of a value read with .get(key) (None when the key is missing)
Truthy(v) ==
    CASE v.tag = "absent" -> FALSE
      [] v.tag = "null" -> FALSE
      [] v.tag = "int" -> v.n # 0
      [] v.tag = "str" -> v.s # ""
      [] OTHER -> TRUE

\* TimingValidator keeping the parsed datetime in the order: order_info['date'] = event_datetime
TimingValidator_storing(o, t) ==
    LET order_info == Get(o.order_info, EmptyOrderInfo)
        services == Get(o.services, EmptyList)
        totals == Get(o.totals, EmptyTotals)
    IN  IF NoGet(order_info) \/ NoGet(totals) THEN Raise(AttributeErrorGet, o)
        ELSE
        LET event_date == order_info.date
            total_cost == Get(totals.total_cost, PyInt(0))
        IN  IF ~Truthy(event_date) THEN Return(<<>>, o)
            ELSE IF event_date.tag # "str" THEN Raise("TypeError: strptime() argument 1 must be str", o)
            ELSE IF event_date.s \notin DOMAIN DayOf
            THEN Return(<<ValidationResult(ERROR, Text("invalid date format", 0, 0, ""),
                            "event_date", Text("use the format YYYY-MM-DD", 0, 0, ""), "None")>>, o)
            ELSE
            LET stored == [o EXCEPT !.order_info.date = DateTime(24 * DayOf[event_date.s])]
            IN  IF services.tag # "list"
                THEN Raise("TypeError: object of type 'NoneType' has no len()", stored)
                ELSE
                LET hours_until_event == 24 * DayOf[event_date.s] - t
                    has_service == Len(services.items) > 0
                IN  IF has_service /\ total_cost.tag # "int"
                    THEN Raise("TypeError: total_cost > 60000", stored)
                    ELSE
                    LET required_hours ==
                            IF has_service
                            THEN IF total_cost.n > 60000
                                 THEN TIMING_REQUIREMENTS["service_premium"]
                                 ELSE TIMING_REQUIREMENTS["service_standard"]
                            ELSE TIMING_REQUIREMENTS["no_service"]
                    IN  IF hours_until_event < required_hours
                        THEN Return(<<ValidationResult(WARNING,
                                        Text("too little time before the event", hours_until_event, required_hours, ""),
                                        "timing", Text("order hours ahead", required_hours, 0, ""), "None")>>, stored)
                        ELSE Return(<<ValidationResult(INFO,
                                        Text("enough time before the event", hours_until_event, 0, ""),
                                        "timing", Text("timing requirements met", 0, 0, ""), "None")>>, stored)

\* TimingValidator warning also when the hours equal the required hours
TimingValidator_inclusive(o, t) ==
    LET order_info == Get(o.order_info, EmptyOrderInfo)
        services == Get(o.services, EmptyList)
        totals == Get(o.totals, EmptyTotals)
    IN  IF NoGet(order_info) \/ NoGet(totals) THEN Raise(AttributeErrorGet, o)
        ELSE
        LET event_date == order_info.date
            total_cost == Get(totals.total_cost, PyInt(0))
        IN  IF ~Truthy(event_date) THEN Return(<<>>, o)
            ELSE IF event_date.tag # "str" THEN Raise("TypeError: strptime() argument 1 must be str", o)
            ELSE IF event_date.s \notin DOMAIN DayOf
            THEN Return(<<ValidationResult(ERROR, Text("invalid date format", 0, 0, ""),
                            "event_date", Text("use the format YYYY-MM-DD", 0, 0, ""), "None")>>, o)
            ELSE IF services.tag # "list" THEN Raise("TypeError: object of type 'NoneType' has no len()", o)
            ELSE
            LET hours_until_event == 24 * DayOf[event_date.s] - t
                has_service == Len(services.items) > 0
            IN  IF has_service /\ total_cost.tag # "int" THEN Raise("TypeError: total_cost > 60000", o)
                ELSE
                LET required_hours ==
                        IF has_service
                        THEN IF total_cost.n > 60000
                             THEN TIMING_REQUIREMENTS["service_premium"]
                             ELSE TIMING_REQUIREMENTS["service_standard"]
                        ELSE TIMING_REQUIREMENTS["no_service"]
                IN  IF hours_until_event <= required_hours
                    THEN Return(<<ValidationResult(WARNING,
                                    Text("too little time before the event", hours_until_event, required_hours, ""),
                                    "timing", Text("order hours ahead", required_hours, 0, ""), "None")>>, o)
                    ELSE Return(<<ValidationResult(INFO,
                                    Text("enough time before the event", hours_until_event, 0, ""),
                                    "timing", Text("timing requirements met", 0, 0, ""), "None")>>, o)

TimingValidator(o, t) ==
    LET order_info == Get(o.order_info, EmptyOrderInfo)
        services == Get(o.services, EmptyList)
        totals == Get(o.totals, EmptyTotals)
    IN  IF NoGet(order_info) \/ NoGet(totals) THEN Raise(AttributeErrorGet, o)
        ELSE
        LET event_date == order_info.date
            total_cost == Get(totals.total_cost, PyInt(0))
        IN  IF ~Truthy(event_date) THEN Return(<<>>, o)
            ELSE IF event_date.tag # "str" THEN Raise("TypeError: strptime() argument 1 must be str", o)
            ELSE IF event_date.s \notin DOMAIN DayOf
            THEN Return(<<ValidationResult(ERROR, Text("invalid date format", 0, 0, ""),
                            "event_date", Text("use the format YYYY-MM-DD", 0, 0, ""), "None")>>, o)
            ELSE IF services.tag # "list" THEN Raise("TypeError: object of type 'NoneType' has no len()", o)
            ELSE
            LET hours_until_event == 24 * DayOf[event_date.s] - t
                has_service == Len(services.items) > 0
            IN  IF has_service /\ total_cost.tag # "int" THEN Raise("TypeError: total_cost > 60000", o)
                ELSE
                LET required_hours ==
                        IF has_service
                        THEN IF total_cost.n > 60000
                             THEN TIMING_REQUIREMENTS["service_premium"]
                             ELSE TIMING_REQUIREMENTS["service_standard"]
                        ELSE TIMING_REQUIREMENTS["no_service"]
                IN  IF hours_until_event < required_hours
                    THEN Return(<<ValidationResult(WARNING,
                                    Text("too little time before the event", hours_until_event, required_hours, ""),
                                    "timing", Text("order hours ahead", required_hours, 0, ""), "None")>>, o)
                    ELSE Return(<<ValidationResult(INFO,
                                    Text("enough time before the event", hours_until_event, 0, ""),
                                    "timing", Text("timing requirements met", 0, 0, ""), "None")>>, o)

\* MenuValidator reading the category with item.setdefault('category', 'unknown')
MenuValidator_setdefault(o) ==
    LET menu_items == Get(o.menu_items, EmptyList)
    IN  IF menu_items.tag # "list" \/ Len(menu_items.items) = 0
        THEN Return(<<ValidationResult(ERROR, Text("menu cannot be empty", 0, 0, ""),
                        "menu_items", Text("add dishes to the order", 0, 0, ""), "None")>>, o)
        ELSE
        LET items == [i \in DOMAIN menu_items.items |->
                        [menu_items.items[i] EXCEPT
                            !.category = Get(menu_items.items[i].category, PyStr("unknown"))]]
            written == [o EXCEPT !.menu_items.items = items]
            categories == {items[i].category : i \in DOMAIN items}
        IN  IF Cardinality(categories) < 2
            THEN Return(<<ValidationResult(WARNING, Text("little variety in the menu", 0, 0, ""),
                            "menu_composition", Text("add dishes of other categories", 0, 0, ""), "None")>>,
                        written)
            ELSE Return(<<ValidationResult(INFO, Text("varied menu", Cardinality(categories), 0, ""),
                            "menu_composition", Text("good variety of dishes", 0, 0, ""), "None")>>, written)

\* no test for the empty menu: the variety check runs on it
MenuValidator_lenient(o) ==
    LET menu_items == Get(o.menu_items, EmptyList)
    IN  IF menu_items.tag # "list"
        THEN Return(<<ValidationResult(ERROR, Text("menu cannot be empty", 0, 0, ""),
                        "menu_items", Text("add dishes to the order", 0, 0, ""), "None")>>, o)
        ELSE
        LET categories == {Get(menu_items.items[i].category, PyStr("unknown")) :
                            i \in DOMAIN menu_items.items}
        IN  IF Cardinality(categories) < 2
            THEN Return(<<ValidationResult(WARNING, Text("little variety in the menu", 0, 0, ""),
                            "menu_composition", Text("add dishes of other categories", 0, 0, ""), "None")>>, o)
            ELSE Return(<<ValidationResult(INFO, Text("varied menu", Cardinality(categories), 0, ""),
                            "menu_composition", Text("good variety of dishes", 0, 0, ""), "None")>>, o)

\* MenuValidator asking for three categories
MenuValidator_three(o) ==
    LET menu_items == Get(o.menu_items, EmptyList)
    IN  IF menu_items.tag # "list" \/ Len(menu_items.items) = 0
        THEN Return(<<ValidationResult(ERROR, Text("menu cannot be empty", 0, 0, ""),
                        "menu_items", Text("add dishes to the order", 0, 0, ""), "None")>>, o)
        ELSE
        LET categories == {Get(menu_items.items[i].category, PyStr("unknown")) :
                            i \in DOMAIN menu_items.items}
        IN  IF Cardinality(categories) < 3
            THEN Return(<<ValidationResult(WARNING, Text("little variety in the menu", 0, 0, ""),
                            "menu_composition", Text("add dishes of other categories", 0, 0, ""), "None")>>, o)
            ELSE Return(<<ValidationResult(INFO, Text("varied menu", Cardinality(categories), 0, ""),
                            "menu_composition", Text("good variety of dishes", 0, 0, ""), "None")>>, o)

MenuValidator(o) ==
    LET menu_items == Get(o.menu_items, EmptyList)
    IN  IF menu_items.tag # "list" \/ Len(menu_items.items) = 0
        THEN Return(<<ValidationResult(ERROR, Text("menu cannot be empty", 0, 0, ""),
                        "menu_items", Text("add dishes to the order", 0, 0, ""), "None")>>, o)
        ELSE
        LET categories == {Get(menu_items.items[i].category, PyStr("unknown")) :
                            i \in DOMAIN menu_items.items}
        IN  IF Cardinality(categories) < 2
            THEN Return(<<ValidationResult(WARNING, Text("little variety in the menu", 0, 0, ""),
                            "menu_composition", Text("add dishes of other categories", 0, 0, ""), "None")>>, o)
            ELSE Return(<<ValidationResult(INFO, Text("varied menu", Cardinality(categories), 0, ""),
                            "menu_composition", Text("good variety of dishes", 0, 0, ""), "None")>>, o)

(***************************************************************************)
(* rules.py: BusinessRulesEngine                                           *)
(***************************************************************************)
\* __init__: self.validators
validators ==
    <<"PortionValidator", "CostValidator", "ServiceValidator", "TimingValidator", "MenuValidator">>

\* validator.validate(order_data); TimingValidator reads datetime.now() = t
validate(validator, o, t) ==
    CASE validator = "PortionValidator" -> PortionValidator(o)
      [] validator = "CostValidator" -> CostValidator(o)
      [] validator = "ServiceValidator" -> ServiceValidator(o)
      [] validator = "TimingValidator" -> TimingValidator(o, t)
      [] validator = "MenuValidator" -> MenuValidator(o)

\* the loop leaving at the first validator that reports an ERROR
RECURSIVE RunValidators_failfast(_, _, _, _, _)
RunValidators_failfast(vs, i, acc, o, t) ==
    IF i > Len(vs) THEN [all_validations |-> acc, exc |-> NoExc, order_data |-> o]
    ELSE
    LET r == validate(vs[i], o, t)
    IN  IF r.exc # NoExc
        THEN [all_validations |-> acc, exc |-> r.exc, order_data |-> r.order_data]
        ELSE IF \E k \in DOMAIN r.results : r.results[k].level = ERROR
        THEN [all_validations |-> acc \o r.results, exc |-> NoExc, order_data |-> r.order_data]
        ELSE RunValidators_failfast(vs, i + 1, acc \o r.results, r.order_data, t)

\* the loop "for validator in self.validators" from validator i on, acc being
\* all_validations so far: the list collected, the exception that ended the loop
\* ("" if none) and the order as the validators leave it
RECURSIVE RunValidators(_, _, _, _, _)
RunValidators(vs, i, acc, o, t) ==
    IF i > Len(vs) THEN [all_validations |-> acc, exc |-> NoExc, order_data |-> o]
    ELSE
    LET r == validate(vs[i], o, t)
    IN  IF r.exc # NoExc
        THEN [all_validations |-> acc, exc |-> r.exc, order_data |-> r.order_data]
        ELSE RunValidators(vs, i + 1, acc \o r.results, r.order_data, t)

CriticalWarnings == {"portion_size", "total_cost", "waiter_count"}

\* the ERROR test made before the CRITICAL test
_determine_overall_status_error_first(validations) ==
    LET has(level) == \E k \in DOMAIN validations : validations[k].level = level
    IN  IF has(ERROR) THEN "error"
        ELSE IF has(CRITICAL) THEN "critical"
        ELSE IF \E k \in DOMAIN validations :
                    validations[k].level = WARNING /\ validations[k].field \in CriticalWarnings
        THEN "warning"
        ELSE "valid"

\* every warning counts
_determine_overall_status_any_warning(validations) ==
    IF \E i \in DOMAIN validations : validations[i].level = CRITICAL THEN "critical"
    ELSE IF \E i \in DOMAIN validations : validations[i].level = ERROR THEN "error"
    ELSE IF \E i \in DOMAIN validations : validations[i].level = WARNING THEN "warning"
    ELSE "valid"

_determine_overall_status(validations) ==
    IF \E i \in DOMAIN validations : validations[i].level = CRITICAL THEN "critical"
    ELSE IF \E i \in DOMAIN validations : validations[i].level = ERROR THEN "error"
    ELSE IF \E i \in DOMAIN validations : validations[i].level = WARNING
    THEN LET warning_fields == SelectSeq(validations, LAMBDA v : v.level = WARNING)
         IN  IF \E i \in DOMAIN warning_fields : warning_fields[i].field \in CriticalWarnings
             THEN "warning"
             ELSE "valid"
    ELSE "valid"

RECURSIVE CountFrom(_, _, _)
CountFrom(validations, i, counts) ==
    IF i > Len(validations) THEN counts
    ELSE CountFrom(validations, i + 1,
                   [counts EXCEPT ![validations[i].level] = counts[validations[i].level] + 1])

_count_by_level(validations) ==
    CountFrom(validations, 1, [l \in ValidationLevel |-> 0])

\* first loop of _generate_recommendations
RECURSIVE PriorityRecommendations(_, _, _)
PriorityRecommendations(validations, i, recommendations) ==
    IF i > Len(validations) THEN recommendations
    ELSE IF validations[i].level \in {CRITICAL, ERROR} /\ validations[i].recommendation # NoText
    THEN PriorityRecommendations(validations, i + 1,
                                 Append(recommendations, validations[i].recommendation))
    ELSE PriorityRecommendations(validations, i + 1, recommendations)

\* second loop of _generate_recommendations
RECURSIVE WarningRecommendations(_, _, _)
WarningRecommendations(validations, i, recommendations) ==
    IF i > Len(validations) THEN recommendations
    ELSE IF /\ validations[i].level = WARNING
            /\ validations[i].recommendation # NoText
            /\ \A k \in DOMAIN recommendations : recommendations[k] # validations[i].recommendation
    THEN WarningRecommendations(validations, i + 1,
                                Append(recommendations, validations[i].recommendation))
    ELSE WarningRecommendations(validations, i + 1, recommendations)

\* second loop without the "not in recommendations" test
RECURSIVE WarningRecommendations_all(_, _, _)
WarningRecommendations_all(validations, i, recommendations) ==
    IF i > Len(validations) THEN recommendations
    ELSE IF validations[i].level = WARNING /\ validations[i].recommendation # NoText
    THEN WarningRecommendations_all(validations, i + 1,
                                    Append(recommendations, validations[i].recommendation))
    ELSE WarningRecommendations_all(validations, i + 1, recommendations)

_generate_recommendations_nodedupe(validations) ==
    LET recommendations ==
            WarningRecommendations_all(validations, 1, PriorityRecommendations(validations, 1, <<>>))
    IN  SubSeq(recommendations, 1, Min(5, Len(recommendations)))

\* without the [:5]
_generate_recommendations_uncut(validations) ==
    WarningRecommendations(validations, 1, PriorityRecommendations(validations, 1, <<>>))

_generate_recommendations(validations) ==
    LET recommendations ==
            WarningRecommendations(validations, 1, PriorityRecommendations(validations, 1, <<>>))
    IN  SubSeq(recommendations, 1, Min(5, Len(recommendations)))

\* the Report of the try branch
NormalReport(validations) ==
    [overall_status |-> _determine_overall_status(validations),
     validations |->
        [i \in DOMAIN validations |->
            [level |-> validations[i].level,
             message |-> validations[i].message,
             field |-> validations[i].field,
             recommendation |-> validations[i].recommendation,
             reference_case |-> validations[i].reference_case]],
     summary |-> [total_validations |-> Len(validations),
                  by_level |-> _count_by_level(validations)],
     recommendations |-> _generate_recommendations(validations)]

\* except branch that keeps what the validators before the failing one reported
FallbackReport_keeping(run) ==
    LET kept == [i \in DOMAIN run.all_validations |->
                    [level |-> run.all_validations[i].level,
                     message |-> run.all_validations[i].message,
                     field |-> run.all_validations[i].field,
                     recommendation |-> run.all_validations[i].recommendation]]
        failure == [level |-> "error",
                    message |-> Text("validation error", 0, 0, run.exc),
                    field |-> "system",
                    recommendation |-> Text("check that the data is correct", 0, 0, "")]
    IN  [overall_status |-> "error",
         validations |-> Append(kept, failure),
         summary |-> [total_validations |-> Len(kept) + 1, by_level |-> [l \in {"error"} |-> 1]],
         recommendations |-> <<Text("fix the errors in the order data", 0, 0, "")>>]

\* the Report of the except branch; run is the interrupted loop
FallbackReport(run) ==
    [overall_status |-> "error",
     validations |->
        <<[level |-> "error",
           message |-> Text("validation error", 0, 0, run.exc),
           field |-> "system",
           recommendation |-> Text("check that the data is correct", 0, 0, "")]>>,
     summary |-> [total_validations |-> 1, by_level |-> [l \in {"error"} |-> 1]],
     recommendations |-> <<Text("fix the errors in the order data", 0, 0, "")>>]

NoReport ==
    [overall_status |-> "", validations |-> <<>>,
     summary |-> [total_validations |-> 0, by_level |-> [l \in {} |-> 0]],
     recommendations |-> <<>>]

\* "except ValueError": the TypeError or AttributeError of a validator reaches the caller
validate_order_from_narrow(run) ==
    IF run.exc = NoExc
    THEN [outcome |-> "returned", report |-> NormalReport(run.all_validations)]
    ELSE [outcome |-> "raised", report |-> NoReport]

\* try/except of validate_order around the outcome of the validators loop
validate_order_from(run) ==
    IF run.exc = NoExc
    THEN [outcome |-> "returned", report |-> NormalReport(run.all_validations)]
    ELSE [outcome |-> "returned", report |-> FallbackReport(run)]

validate_order(o, t) ==
    LET run == RunValidators(validators, 1, <<>>, o, t)
        out == validate_order_from(run)
    IN  [outcome |-> out.outcome, report |-> out.report, order_data |-> run.order_data]

(***************************************************************************)
(* Orders                                                                  *)
(***************************************************************************)
MaxCalls == 2
NumCalls == 2
MaxFindings == 6

List(items) == [tag |-> "list", items |-> items]

GuestValues == {Absent, PyNone, PyInt(0), PyInt(20), PyInt(60)}
EventTypeValues == {Absent, PyStr("banquet"), PyStr("wedding")}
DateValues == {Absent, PyStr("15.06.2025"), PyInt(20250602), PyStr("2025-06-02"), PyStr("2025-06-04")}
WeightValues == {Absent, PyInt(14000), PyInt(18000)}
CostValues == {Absent, PyNone, PyInt(50000), PyInt(400000)}
NowValues == {0, 36}

OrderInfoValues ==
    {Absent, PyNone} \cup
    {[tag |-> "dict", guests |-> g, event_type |-> e, date |-> d] :
        g \in GuestValues, e \in EventTypeValues, d \in DateValues}

TotalsValues ==
    {Absent} \cup
    {[tag |-> "dict", total_weight |-> w, total_cost |-> c] : w \in WeightValues, c \in CostValues}

Waiter == <<"O", "f", "i", "c", "i", "a", "n", "t">>
Delivery == <<"D", "o", "s", "t", "a", "v", "k", "a">>
Service(name, quantity) == [name |-> name, quantity |-> quantity]

ServicesValues ==
    {Absent, PyNone, List(<<>>),
     List(<<Service(Name(Waiter), PyInt(1))>>),
     List(<<Service(Name(Waiter), PyInt(3))>>),
     List(<<Service(Name(Waiter), PyNone)>>),
     List(<<Service(Name(Delivery), Absent)>>),
     List(<<Service(Name(Delivery), PyInt(1)), Service(Name(Waiter), PyInt(1))>>)}

MenuItem(category) == [category |-> category]

MenuValues ==
    {Absent, List(<<>>),
     List(<<MenuItem(PyStr("canape"))>>),
     List(<<MenuItem(PyStr("canape")), MenuItem(PyStr("salad"))>>),
     List(<<MenuItem(Absent), MenuItem(PyStr("unknown"))>>)}

Order(oi, m, sv, tt) == [order_info |-> oi, menu_items |-> m, services |-> sv, totals |-> tt]

Orders ==
    {Order(oi, m, sv, tt) :
        oi \in OrderInfoValues, m \in MenuValues, sv \in ServicesValues, tt \in TotalsValues}

EmptyOrder == Order(Absent, Absent, Absent, Absent)
NoRun == [all_validations |-> <<>>, exc |-> NoExc, order_data |-> EmptyOrder]
Calls == 1..NumCalls

(***************************************************************************)
(* The estimate pipeline around the engine:                                *)
(* src/src/services/expert_orchestrator.py, estimate_service.py and        *)
(* sheets_service.py.  EstimateService.create_complete_estimate awaits     *)
(* ExpertOrchestrator.process_estimate_request, which awaits the experts   *)
(* one after another, then the Sheets service and the PDF service.  Every  *)
(* await of an outside service is a point where another request may run.   *)
(* The experts, Google Drive/Sheets and the PDF export are the outside     *)
(* world: each call to them returns or raises.                             *)
(***************************************************************************)
NumRequests == 2
MaxTimestamp == 1
Requests == 1..NumRequests
Timestamps == 0..MaxTimestamp

\* A user input is kept as its text (transliterated), its len() and the words
\* of the two keyword lists that user_input.lower() contains.
UserInput(text, length, words) == [text |-> text, len |-> length, words |-> words]
UserInputs ==
    {UserInput("Furshet na 25 chelovek, byudzhet 40000 rubley", 41, {}),
     UserInput("Nuzhen furshet", 12, {"nuzhen"}),
     UserInput("Planiruem furshet na 25 chelovek v ofise, nuzhny kanape i sendvichi", 63,
               {"planiruem", "kanape", "sendvich"})}

\* context: None, or a dict of which session_id and budget are read
NoContext == [tag |-> "null", session_id |-> Absent, budget |-> Absent]
Context(sid, budget) == [tag |-> "dict", session_id |-> sid, budget |-> budget]
Contexts ==
    {NoContext,
     Context(PyStr("test_session_123"), Absent),
     Context(Absent, PyInt(40000))}

\* f"session_{int(datetime.now().timestamp())}"
GeneratedSessionId(ts) == [tag |-> "str", n |-> ts, s |-> "session_"]

\* the "analysis" dict inside what ConversationManager.analyze_request returns;
\* confidence is counted in tenths
Detected(event_type, guests, budget, confidence) ==
    [detected_event_type |-> event_type, detected_guests |-> guests,
     detected_budget |-> budget, confidence |-> confidence]
NoAnalysis == Detected(Absent, Absent, Absent, Absent)
Analyses ==
    {Detected(PyStr("buffet"), PyInt(25), PyInt(40000), PyInt(9)),
     Detected(PyStr("buffet"), PyInt(25), PyNone, PyInt(9)),
     Detected(PyStr("buffet"), PyInt(25), PyNone, PyInt(5)),
     Detected(PyStr("unknown"), PyNone, PyNone, PyInt(3))}

MenuWords == {"kanape", "sendvich", "menyu", "blyuda"}
force_create_keywords ==
    {"hotim", "nuzhen", "planiruem", "zakazat", "podgotovit",
     "konkretno", "imenno", "tochno", "sozdat smetu"}

_has_sufficient_info(detected, user_input) ==
    LET has_event_type ==
            Get(detected.detected_event_type, PyNone) \notin {PyNone, PyStr("unknown")}
        has_guests == Get(detected.detected_guests, PyNone) # PyNone
        has_confidence == Get(detected.confidence, PyInt(0)).n > 6
        has_details == user_input.len > 50
        has_budget_or_menu ==
            \/ Get(detected.detected_budget, PyNone) # PyNone
            \/ user_input.words \cap MenuWords # {}
        has_intent == user_input.words \cap force_create_keywords # {}
        basic_ready == has_event_type /\ has_guests /\ has_confidence
        enhanced_ready == has_intent /\ has_guests /\ (has_budget_or_menu \/ has_details)
    IN  basic_ready \/ enhanced_ready

\* detected.get("detected_budget") or (context.get("budget") if context else None)
_extract_budget(detected, context) ==
    LET a == Get(detected.detected_budget, PyNone)
        b == IF Truthy(context) THEN Get(context.budget, PyNone) ELSE PyNone
    IN  IF Truthy(a) THEN a ELSE b

\* "if target_budget"
HasTargetBudget(detected, context) == Truthy(_extract_budget(detected, context))

\* str(e) is kept as the sequence of the pieces it is concatenated from;
\* the empty sequence stands for a dict without the key
NoStr == <<>>
OrderNumber == PyStr("P-54321")
ResponseText == <<"Skolko budet gostey? Kakoy byudzhet?">>
MenuSelectionFailed == <<"Menu selection failed">>
ExpertErrors ==
    [analyze_request |-> <<"Analysis failed">>,
     generate_response |-> <<"Response generation failed">>,
     select_menu |-> MenuSelectionFailed,
     validate_portions |-> <<"Portion validation failed">>,
     optimize_budget |-> <<"Budget optimization failed">>,
     format_for_sheets |-> <<"Formatting failed">>]
InitializeError == <<"Google credentials not found: config/google_credentials.json">>
CopyError == <<"HttpError 403: storage quota exceeded">>
FillError == <<"APIError 429: quota exceeded">>

\* an exception raised by an outside service: who raised it, and its str()
Exception(service, str) == [service |-> service, str |-> str]
NoException == Exception("", NoStr)
Experts == DOMAIN ExpertErrors

\* str(KeyError(key)) is repr(key)
KeyErrorText(key) == IF key.tag = "null" THEN <<"None">> ELSE <<"'", key.s, "'">>

\* f"Expert analysis failed: {expert_result.get('error')}"
ExpertAnalysisFailed(error) == <<"Expert analysis failed: ">> \o error

\* Python dicts keyed by session id
EmptyDict == [k \in {} |-> 0]
DictSet(d, k, v) == [x \in DOMAIN d \cup {k} |-> IF x = k THEN v ELSE d[x]]
DictDel(d, k) == [x \in DOMAIN d \ {k} |-> d[x]]

\* what process_estimate_request gives its caller
\* the sheets_data dict that format_for_sheets returns, with its order_info.number
SheetsData(number) == [tag |-> "dict", number |-> number]
NoSheetsData == [tag |-> "absent", number |-> Absent]
SheetsDataValues == {SheetsData(OrderNumber), SheetsData(Absent)}

\* f"P-{int(datetime.now().timestamp())}"
GeneratedOrderNumber(ts) == [tag |-> "str", n |-> ts, s |-> "P-"]

ExpertResult(outcome, stage, success, needs_more_info, response, error, sid, sheets_data) ==
    [outcome |-> outcome, stage |-> stage, success |-> success,
     needs_more_info |-> needs_more_info, response |-> response,
     error |-> error, session_id |-> sid, sheets_data |-> sheets_data]
NoExpertResult == ExpertResult("none", "", FALSE, FALSE, NoStr, NoStr, Absent, NoSheetsData)

\* what create_complete_estimate gives its caller
EstimateResult(outcome, stage, success, needs_more_info, response, error, sid, number, sheet_id, pdf) ==
    [outcome |-> outcome, stage |-> stage, success |-> success,
     needs_more_info |-> needs_more_info, response |-> response,
     error |-> error, session_id |-> sid, order_number |-> number, sheet_id |-> sheet_id,
     pdf_generated |-> pdf]
NoEstimateResult == EstimateResult("none", "", FALSE, FALSE, NoStr, NoStr, Absent, Absent, 0, FALSE)

\* context.get("session_id", "unknown") if context else "unknown"
OrchestratorSessionId(context) ==
    IF Truthy(context) THEN Get(context.session_id, PyStr("unknown")) ELSE PyStr("unknown")

\* context.get("session_id") if context else f"session_{...}"
ServiceSessionId(context, ts) ==
    IF Truthy(context) THEN Get(context.session_id, PyNone) ELSE GeneratedSessionId(ts)

Processing(stage, number) ==
    [status |-> "processing", stage |-> stage, order_number |-> number]

\* the except branch of create_complete_estimate, entered with the exception
\* whose str() is e while the dict of estimates in process is pe
ServiceFailure(r, e, pe) ==
    LET sid == session_id[r]
        left == IF sid \in DOMAIN pe THEN DictDel(pe, sid) ELSE pe
        stage == IF sid \in DOMAIN left THEN left[sid].stage ELSE "unknown"
    IN  /\ _stats' = [_stats EXCEPT !.total_failed = @ + 1]
        /\ processing_estimates' = left
        /\ estimate_result' = [estimate_result EXCEPT ![r] =
                EstimateResult("returned", stage, FALSE, FALSE, NoStr, e, sid, Absent, 0, FALSE)]
        /\ at' = [at EXCEPT ![r] = "done"]

\* the expert raised: the except branch of process_estimate_request returns
\* the error dict, and create_complete_estimate raises "Expert analysis failed"
\* into its own except branch
ExpertFailure(r, expert) ==
    LET e == ExpertErrors[expert]
    IN  /\ raised' = [raised EXCEPT ![r] = Exception(expert, e)]
        /\ expert_result' = [expert_result EXCEPT ![r] =
                ExpertResult("returned", "error", FALSE, FALSE, NoStr, e,
                             OrchestratorSessionId(request[r].context), NoSheetsData)]
        /\ ServiceFailure(r, ExpertAnalysisFailed(e), processing_estimates)

\* a step of create_estimate_sheet raised: it reaches the except branch of
\* create_complete_estimate as it is
SheetsFailure(r, step, e, pe) ==
    /\ raised' = [raised EXCEPT ![r] = Exception(step, e)]
    /\ ServiceFailure(r, e, pe)

\* the call of an expert: the mock's call log, and the await
Await(r, expert) ==
    /\ invoked' = [invoked EXCEPT ![r] = Append(@, expert)]
    /\ at' = [at EXCEPT ![r] = expert]

\* create_complete_estimate up to its first await, analyze_request
StartEstimate(r) ==
    /\ at[r] = "idle"
    /\ \E ts \in Timestamps :
        /\ ts >= timestamp
        /\ timestamp' = ts
        /\ LET sid == ServiceSessionId(request[r].context, ts)
           IN  /\ session_id' = [session_id EXCEPT ![r] = sid]
               /\ processing_estimates' =
                    DictSet(processing_estimates, sid, Processing("experts", Absent))
    /\ Await(r, "analyze_request")
    /\ UNCHANGED <<engine_vars, claude_vars>>
    /\ UNCHANGED <<request, order_number, analysis, raised, expert_result, estimate_result,
                   completed_estimates, _stats, _initialized, drive_files, pdf_files>>

\* analyze_request returns or raises; then _has_sufficient_info
AnalyzeRequest(r) ==
    /\ at[r] = "analyze_request"
    /\ \/ /\ ExpertFailure(r, "analyze_request")
          /\ UNCHANGED <<analysis, invoked>>
       \/ \E a \in Analyses :
            /\ analysis' = [analysis EXCEPT ![r] = a]
            /\ IF ~_has_sufficient_info(a, request[r].user_input)
               THEN Await(r, "generate_response")
               ELSE Await(r, "select_menu")
            /\ UNCHANGED <<raised, expert_result, estimate_result,
                           processing_estimates, _stats>>
    /\ UNCHANGED <<engine_vars, claude_vars>>
    /\ UNCHANGED <<request, order_number, session_id, timestamp, completed_estimates,
                   _initialized, drive_files, pdf_files>>

\* generate_response returns or raises; the needs_more_info return of both functions
GenerateResponse(r) ==
    /\ at[r] = "generate_response"
    /\ \/ ExpertFailure(r, "generate_response")
       \/ /\ expert_result' = [expert_result EXCEPT ![r] =
                ExpertResult("returned", "conversation", FALSE, TRUE, ResponseText, NoStr, Absent,
                             NoSheetsData)]
          /\ estimate_result' = [estimate_result EXCEPT ![r] =
                EstimateResult("returned", "needs_clarification", FALSE, TRUE,
                               ResponseText, NoStr, session_id[r], Absent, 0, FALSE)]
          /\ at' = [at EXCEPT ![r] = "done"]
          /\ UNCHANGED <<raised, processing_estimates, _stats>>
    /\ UNCHANGED <<engine_vars, claude_vars>>
    /\ UNCHANGED <<request, order_number, session_id, analysis, invoked, timestamp,
                   completed_estimates, _initialized, drive_files, pdf_files>>

\* select_menu returns or raises
SelectMenu(r) ==
    /\ at[r] = "select_menu"
    /\ \/ /\ ExpertFailure(r, "select_menu")
          /\ UNCHANGED invoked
       \/ /\ Await(r, "validate_portions")
          /\ UNCHANGED <<raised, expert_result, estimate_result,
                         processing_estimates, _stats>>
    /\ UNCHANGED <<engine_vars, claude_vars>>
    /\ UNCHANGED <<request, order_number, session_id, analysis, timestamp, completed_estimates,
                   _initialized, drive_files, pdf_files>>

\* validate_portions returns or raises; then "if target_budget"
ValidatePortions(r) ==
    /\ at[r] = "validate_portions"
    /\ \/ /\ ExpertFailure(r, "validate_portions")
          /\ UNCHANGED invoked
       \/ /\ IF HasTargetBudget(analysis[r], request[r].context)
             THEN Await(r, "optimize_budget")
             ELSE Await(r, "format_for_sheets")
          /\ UNCHANGED <<raised, expert_result, estimate_result,
                         processing_estimates, _stats>>
    /\ UNCHANGED <<engine_vars, claude_vars>>
    /\ UNCHANGED <<request, order_number, session_id, analysis, timestamp, completed_estimates,
                   _initialized, drive_files, pdf_files>>

\* optimize_budget returns or raises
OptimizeBudget(r) ==
    /\ at[r] = "optimize_budget"
    /\ \/ /\ ExpertFailure(r, "optimize_budget")
          /\ UNCHANGED invoked
       \/ /\ Await(r, "format_for_sheets")
          /\ UNCHANGED <<raised, expert_result, estimate_result,
                         processing_estimates, _stats>>
    /\ UNCHANGED <<engine_vars, claude_vars>>
    /\ UNCHANGED <<request, order_number, session_id, analysis, timestamp, completed_estimates,
                   _initialized, drive_files, pdf_files>>

\* self.processing_estimates[session_id]["stage"] = stage raises KeyError when
\* the entry is gone
HasEntry(r) == session_id[r] \in DOMAIN processing_estimates
WithStage(r, stage, number) ==
    DictSet(processing_estimates, session_id[r], Processing(stage, number))
\* self.processing_estimates[session_id]["stage"] = stage alone
SetStage(r, stage) == WithStage(r, stage, processing_estimates[session_id[r]].order_number)

\* create_estimate_sheet from its try: the Drive copy of the template is a
\* blocking call; it raises, or the copy exists and authorize() is awaited
CopyTemplate(r, pe) ==
    \/ /\ SheetsFailure(r, "copy", CopyError, pe)
       /\ UNCHANGED drive_files
    \/ /\ drive_files' = drive_files \cup {r}
       /\ processing_estimates' = pe
       /\ at' = [at EXCEPT ![r] = "fill_sheet"]
       /\ UNCHANGED <<raised, estimate_result, _stats>>

\* format_for_sheets returns or raises; process_estimate_request returns the
\* completed dict; create_complete_estimate goes on to create_estimate_sheet
FormatForSheets(r) ==
    /\ at[r] = "format_for_sheets"
    /\ \/ /\ ExpertFailure(r, "format_for_sheets")
          /\ UNCHANGED <<order_number, timestamp, _initialized, drive_files>>
       \/ \E sheets_data \in SheetsDataValues, ts \in Timestamps :
            LET number == IF sheets_data.number.tag = "absent"
                          THEN GeneratedOrderNumber(ts) ELSE sheets_data.number
            IN  /\ IF sheets_data.number.tag = "absent" THEN ts >= timestamp ELSE ts = timestamp
                /\ timestamp' = ts
                /\ order_number' = [order_number EXCEPT ![r] = number]
                /\ expert_result' = [expert_result EXCEPT ![r] =
                        ExpertResult("returned", "completed", TRUE, FALSE, NoStr, NoStr,
                                     OrchestratorSessionId(request[r].context), sheets_data)]
                /\ IF ~HasEntry(r)
                   THEN /\ ServiceFailure(r, KeyErrorText(session_id[r]), processing_estimates)
                        /\ UNCHANGED <<raised, drive_files>>
                   ELSE IF ~_initialized
                   THEN /\ processing_estimates' = WithStage(r, "sheets", number)
                        /\ at' = [at EXCEPT ![r] = "initialize"]
                        /\ UNCHANGED <<raised, estimate_result, _stats, drive_files>>
                   ELSE CopyTemplate(r, WithStage(r, "sheets", number))
                /\ UNCHANGED _initialized
    /\ UNCHANGED <<engine_vars, claude_vars>>
    /\ UNCHANGED <<request, session_id, analysis, invoked,
                   completed_estimates, pdf_files>>

\* sheets_service.initialize() returns or raises, outside the try of
\* create_estimate_sheet
SheetsInitialize(r) ==
    /\ at[r] = "initialize"
    /\ \/ /\ SheetsFailure(r, "initialize", InitializeError, processing_estimates)
          /\ UNCHANGED <<_initialized, drive_files>>
       \/ /\ _initialized' = TRUE
          /\ CopyTemplate(r, processing_estimates)
    /\ UNCHANGED <<engine_vars, claude_vars>>
    /\ UNCHANGED <<request, order_number, session_id, analysis, invoked, expert_result,
                   timestamp, completed_estimates, pdf_files>>

\* authorize, open_by_key and _fill_estimate_data return or one of them raises
\* (_create_public_link catches its own); the except of create_estimate_sheet
\* re-raises and the copy stays in Drive.  Then the "pdf" stage.
FillSheet(r) ==
    /\ at[r] = "fill_sheet"
    /\ \/ SheetsFailure(r, "fill", FillError, processing_estimates)
       \/ /\ IF ~HasEntry(r)
             THEN ServiceFailure(r, KeyErrorText(session_id[r]), processing_estimates)
             ELSE /\ processing_estimates' = SetStage(r, "pdf")
                  /\ at' = [at EXCEPT ![r] = "generate_pdf"]
                  /\ UNCHANGED <<estimate_result, _stats>>
          /\ UNCHANGED raised
    /\ UNCHANGED <<engine_vars, claude_vars>>
    /\ UNCHANGED <<request, order_number, session_id, analysis, invoked, expert_result,
                   timestamp, completed_estimates, _initialized, drive_files, pdf_files>>

\* generate_pdf_from_sheet returning None counted as a failed estimate
GeneratePdf_needing_file(r) ==
    /\ at[r] = "generate_pdf"
    /\ \E generated \in BOOLEAN :
        LET sid == session_id[r]
            res == EstimateResult("returned", "completed", generated, FALSE, NoStr, NoStr,
                                  sid, order_number[r], r, generated)
        IN  /\ pdf_files' = IF generated THEN pdf_files \cup {r} ELSE pdf_files
            /\ estimate_result' = [estimate_result EXCEPT ![r] = res]
            /\ completed_estimates' = DictSet(completed_estimates, sid, res)
            /\ _stats' = [_stats EXCEPT !.total_created = @ + 1]
            /\ processing_estimates' =
                 IF sid \in DOMAIN processing_estimates
                 THEN DictDel(processing_estimates, sid) ELSE processing_estimates
            /\ at' = [at EXCEPT ![r] = "done"]
    /\ UNCHANGED <<engine_vars, claude_vars>>
    /\ UNCHANGED <<request, order_number, session_id, analysis, invoked, raised, expert_result,
                   timestamp, _initialized, drive_files>>

\* generate_pdf_from_sheet returns the path or, having caught its exception,
\* None; then the result, the history, the statistics and the return
GeneratePdf(r) ==
    /\ at[r] = "generate_pdf"
    /\ \E generated \in BOOLEAN :
        LET sid == session_id[r]
            res == EstimateResult("returned", "completed", TRUE, FALSE, NoStr, NoStr,
                                  sid, order_number[r], r, generated)
        IN  /\ pdf_files' = IF generated THEN pdf_files \cup {r} ELSE pdf_files
            /\ estimate_result' = [estimate_result EXCEPT ![r] = res]
            /\ completed_estimates' = DictSet(completed_estimates, sid, res)
            /\ _stats' = [_stats EXCEPT !.total_created = @ + 1]
            /\ processing_estimates' =
                 IF sid \in DOMAIN processing_estimates
                 THEN DictDel(processing_estimates, sid) ELSE processing_estimates
            /\ at' = [at EXCEPT ![r] = "done"]
    /\ UNCHANGED <<engine_vars, claude_vars>>
    /\ UNCHANGED <<request, order_number, session_id, analysis, invoked, raised, expert_result,
                   timestamp, _initialized, drive_files>>

\* no request has been made
(***************************************************************************)
(* claude_service.py: ClaudeService.send_message.  A call is suspended at   *)
(* "create" (await self.client.messages.create) or at "sleep" (await        *)
(* asyncio.sleep); the code between two awaits runs as one step.            *)
(***************************************************************************)
NumSends == 2
Sends == 1..NumSends

max_retries == 3

\* what messages.create gives: a Message with a content list, or an exception
Message(content) == [content |-> content]
ApiMessages == {Message(<<"{\"menu\": []}">>), Message(<<"Skolko gostey?">>), Message(<<>>)}
ApiErrors == {<<"RateLimitError: 429">>}
IndexErrorText == <<"list index out of range">>

\* how an attempt ended
Succeeded_attempt(text) == [ok |-> TRUE, text |-> text, error |-> NoStr]
Failed_attempt(e) == [ok |-> FALSE, text |-> NoStr, error |-> e]

\* ClaudeResponse(content=response.content[0].text, ...)
ClaudeResponse(content) == [outcome |-> "returned", content |-> content, error |-> NoStr]
ClaudeFailed(e) ==
    [outcome |-> "raised", content |-> NoStr,
     error |-> <<"Claude API failed after 3 retries: ">> \o e]
ReturnedNone == [outcome |-> "returned", content |-> <<"None">>, error |-> NoStr]
NoClaudeResult == [outcome |-> "none", content |-> NoStr, error |-> NoStr]

\* the head of "while retry_count < max_retries" with retry_count = n, up to
\* the await of messages.create; past the loop the function returns None
EnterLoop(c, n) ==
    IF n < max_retries
    THEN /\ _request_count' = _request_count + 1
         /\ send_at' = [send_at EXCEPT ![c] = "create"]
         /\ UNCHANGED send_result
    ELSE /\ send_at' = [send_at EXCEPT ![c] = "done"]
         /\ send_result' = [send_result EXCEPT ![c] = ReturnedNone]
         /\ UNCHANGED _request_count

\* the except branch raising only past max_retries
ExceptBranch_late(c, e) ==
    /\ retry_count' = [retry_count EXCEPT ![c] = @ + 1]
    /\ _error_count' = _error_count + 1
    /\ attempts' = [attempts EXCEPT ![c] = Append(@, Failed_attempt(e))]
    /\ IF retry_count[c] + 1 > max_retries
       THEN /\ send_result' = [send_result EXCEPT ![c] = ClaudeFailed(e)]
            /\ send_at' = [send_at EXCEPT ![c] = "done"]
       ELSE /\ send_at' = [send_at EXCEPT ![c] = "sleep"]
            /\ UNCHANGED send_result
    /\ UNCHANGED _request_count

\* "except Exception as e" of send_message, up to the raise or the await of sleep
ExceptBranch(c, e) ==
    /\ retry_count' = [retry_count EXCEPT ![c] = @ + 1]
    /\ _error_count' = _error_count + 1
    /\ attempts' = [attempts EXCEPT ![c] = Append(@, Failed_attempt(e))]
    /\ IF retry_count[c] + 1 >= max_retries
       THEN /\ send_result' = [send_result EXCEPT ![c] = ClaudeFailed(e)]
            /\ send_at' = [send_at EXCEPT ![c] = "done"]
       ELSE /\ send_at' = [send_at EXCEPT ![c] = "sleep"]
            /\ UNCHANGED send_result
    /\ UNCHANGED _request_count

\* send_message is called: retry_count = 0 and the first pass of the loop
SendMessage(c) ==
    /\ send_at[c] = "idle"
    /\ retry_count' = [retry_count EXCEPT ![c] = 0]
    /\ EnterLoop(c, 0)
    /\ UNCHANGED <<attempts, _error_count>>
    /\ UNCHANGED <<engine_vars, svc_vars>>

\* messages.create returns a Message: the ClaudeResponse is returned, or
\* response.content[0] raises IndexError inside the try
CreateReturns(c) ==
    /\ send_at[c] = "create"
    /\ \E response \in ApiMessages :
          IF Len(response.content) > 0
          THEN /\ send_result' = [send_result EXCEPT ![c] = ClaudeResponse(<<response.content[1]>>)]
               /\ attempts' = [attempts EXCEPT ![c] = Append(@, Succeeded_attempt(<<response.content[1]>>))]
               /\ send_at' = [send_at EXCEPT ![c] = "done"]
               /\ UNCHANGED <<retry_count, _request_count, _error_count>>
          ELSE ExceptBranch(c, IndexErrorText)
    /\ UNCHANGED <<engine_vars, svc_vars>>

\* messages.create raises
CreateRaises(c) ==
    /\ send_at[c] = "create"
    /\ \E e \in ApiErrors : ExceptBranch(c, e)
    /\ UNCHANGED <<engine_vars, svc_vars>>

\* asyncio.sleep(2 ** retry_count) is over: the next pass of the loop
Sleep(c) ==
    /\ send_at[c] = "sleep"
    /\ EnterLoop(c, retry_count[c])
    /\ UNCHANGED <<retry_count, attempts, _error_count>>
    /\ UNCHANGED <<engine_vars, svc_vars>>

\* ClaudeService.get_stats(), without the success_rate
claude_get_stats == [total_requests |-> _request_count, error_count |-> _error_count]

\* ClaudeService.__init__, and no send_message call made
ClaudeIdle ==
    /\ send_at = [c \in Sends |-> "idle"]
    /\ retry_count = [c \in Sends |-> 0]
    /\ attempts = [c \in Sends |-> <<>>]
    /\ send_result = [c \in Sends |-> NoClaudeResult]
    /\ _request_count = 0
    /\ _error_count = 0

NoRequest == [user_input |-> UserInput("", 0, {}), context |-> NoContext]
ServicesIdle ==
    /\ request = [r \in Requests |-> NoRequest]
    /\ at = [r \in Requests |-> "idle"]
    /\ session_id = [r \in Requests |-> Absent]
    /\ order_number = [r \in Requests |-> Absent]
    /\ analysis = [r \in Requests |-> NoAnalysis]
    /\ invoked = [r \in Requests |-> <<>>]
    /\ raised = [r \in Requests |-> NoException]
    /\ expert_result = [r \in Requests |-> NoExpertResult]
    /\ estimate_result = [r \in Requests |-> NoEstimateResult]
    /\ timestamp = 0
    /\ processing_estimates = EmptyDict
    /\ completed_estimates = EmptyDict
    /\ _stats = [total_created |-> 0, total_failed |-> 0]
    /\ _initialized = FALSE
    /\ drive_files = {}
    /\ pdf_files = {}

\* the engine is not called by this pipeline
EngineIdle ==
    /\ order = EmptyOrder
    /\ now = 0
    /\ returned = <<>>
    /\ stub = NoRun
    /\ pc = [c \in Calls |-> "idle"]
    /\ idx = [c \in Calls |-> 0]
    /\ all_validations = [c \in Calls |-> <<>>]
    /\ result = [c \in Calls |-> NoReport]

(***************************************************************************)
(* SpecEstimate: callers make NumRequests calls of                         *)
(* create_complete_estimate on the one EstimateService; the calls          *)
(* interleave at their awaits.                                             *)
(***************************************************************************)
InitEstimate ==
    /\ EngineIdle
    /\ ClaudeIdle
    /\ request \in [Requests -> [user_input : UserInputs, context : Contexts]]
    /\ at = [r \in Requests |-> "idle"]
    /\ session_id = [r \in Requests |-> Absent]
    /\ order_number = [r \in Requests |-> Absent]
    /\ analysis = [r \in Requests |-> NoAnalysis]
    /\ invoked = [r \in Requests |-> <<>>]
    /\ raised = [r \in Requests |-> NoException]
    /\ expert_result = [r \in Requests |-> NoExpertResult]
    /\ estimate_result = [r \in Requests |-> NoEstimateResult]
    /\ timestamp = 0
    /\ processing_estimates = EmptyDict
    /\ completed_estimates = EmptyDict
    /\ _stats = [total_created |-> 0, total_failed |-> 0]
    /\ _initialized \in BOOLEAN
    /\ drive_files = {}
    /\ pdf_files = {}

NextEstimate ==
    \E r \in Requests :
        \/ StartEstimate(r)
        \/ AnalyzeRequest(r)
        \/ GenerateResponse(r)
        \/ SelectMenu(r)
        \/ ValidatePortions(r)
        \/ OptimizeBudget(r)
        \/ FormatForSheets(r)
        \/ SheetsInitialize(r)
        \/ FillSheet(r)
        \/ GeneratePdf(r)

SpecEstimate == InitEstimate /\ [][NextEstimate]_vars

(***************************************************************************)
(* SpecClaude: NumSends calls of send_message on the one ClaudeService,     *)
(* interleaving at their awaits.  SpecClaudeFair: the event loop resumes    *)
(* every suspended call: messages.create returns or raises (the client has  *)
(* a timeout), and asyncio.sleep ends.                                      *)
(***************************************************************************)
InitClaude ==
    /\ EngineIdle
    /\ ServicesIdle
    /\ ClaudeIdle

NextClaude ==
    \E c \in Sends :
        \/ SendMessage(c)
        \/ CreateReturns(c)
        \/ CreateRaises(c)
        \/ Sleep(c)

SpecClaude == InitClaude /\ [][NextClaude]_vars

SpecClaudeFair ==
    /\ SpecClaude
    /\ \A c \in Sends : WF_vars(CreateReturns(c) \/ CreateRaises(c))
    /\ \A c \in Sends : WF_vars(Sleep(c))

(***************************************************************************)
(* Spec: a caller validates one order, call after call.  validate_order    *)
(* has no await inside, so a call is one step.                             *)
(***************************************************************************)
Init ==
    /\ order \in Orders
    /\ now \in NowValues
    /\ returned = <<>>
    /\ stub = NoRun
    /\ pc = [c \in Calls |-> "idle"]
    /\ idx = [c \in Calls |-> 0]
    /\ all_validations = [c \in Calls |-> <<>>]
    /\ result = [c \in Calls |-> NoReport]
    /\ ServicesIdle
    /\ ClaudeIdle

ValidateOrder ==
    /\ Len(returned) < MaxCalls
    /\ LET r == validate_order(order, now)
       IN  /\ returned' = Append(returned, [outcome |-> r.outcome, report |-> r.report])
           /\ order' = r.order_data
    /\ UNCHANGED <<now, stub, pc, idx, all_validations, result>>
    /\ UNCHANGED <<svc_vars, claude_vars>>

Next == ValidateOrder

Spec == Init /\ [][Next]_vars

(***************************************************************************)
(* SpecAgg: the aggregation of validate_order (rules.py lines 38-80) as a  *)
(* function of the outcome of its validators loop: any list of up to       *)
(* MaxFindings findings, or an exception.                                  *)
(***************************************************************************)
RecA == Text("raise to 250g per guest", 0, 0, "")
RecC == Text("order hours ahead", 48, 0, "")
RecI == Text("cost within the norm", 0, 0, "")

FindingPool ==
    {ValidationResult(CRITICAL, Text("not enough food", 160, 250, ""), "portion_size", RecA, "None"),
     ValidationResult(ERROR, Text("order below minimum", 8000, 10000, ""), "total_cost", NoText, "None"),
     ValidationResult(WARNING, Text("too few waiters", 1, 60, ""), "waiter_count", RecA, "None"),
     ValidationResult(WARNING, Text("too little time before the event", 12, 48, ""), "timing", RecC, "None"),
     ValidationResult(INFO, Text("order amount meets requirements", 75000, 0, ""), "total_cost", RecI, "None")}

FindingLists == UNION {[1..n -> FindingPool] : n \in 0..MaxFindings}

LoopOutcomes ==
    {[all_validations |-> fs, exc |-> NoExc, order_data |-> EmptyOrder] : fs \in FindingLists}
    \cup
    {[all_validations |-> fs, exc |-> "TypeError: guests <= 0", order_data |-> EmptyOrder] :
        fs \in {gs \in FindingLists : Len(gs) <= 1}}

InitAgg ==
    /\ order = EmptyOrder
    /\ now = 0
    /\ returned = <<>>
    /\ stub \in LoopOutcomes
    /\ pc = [c \in Calls |-> "idle"]
    /\ idx = [c \in Calls |-> 0]
    /\ all_validations = [c \in Calls |-> <<>>]
    /\ result = [c \in Calls |-> NoReport]
    /\ ServicesIdle
    /\ ClaudeIdle

Aggregate ==
    /\ returned = <<>>
    /\ returned' = <<validate_order_from(stub)>>
    /\ UNCHANGED <<order, now, stub, pc, idx, all_validations, result>>
    /\ UNCHANGED <<svc_vars, claude_vars>>

NextAgg == Aggregate

SpecAgg == InitAgg /\ [][NextAgg]_vars

(***************************************************************************)
(* SpecConc: NumCalls validate_order calls on one engine and one order,    *)
(* interleaved between any two validators.                                 *)
(***************************************************************************)
ConcOrders ==
    {Order(oi, List(<<MenuItem(PyStr("canape")), MenuItem(PyStr("salad"))>>), sv, tt) :
        oi \in {Absent, PyNone} \cup
               {[tag |-> "dict", guests |-> g, event_type |-> Absent, date |-> d] :
                    g \in GuestValues, d \in DateValues},
        sv \in ServicesValues,
        tt \in {Absent, [tag |-> "dict", total_weight |-> PyInt(14000), total_cost |-> PyInt(400000)]}}

\* all_validations is a local of validate_order: each call has its own
SharedFrame(c) == 1
Frame(c) == c

InitConc ==
    /\ order \in ConcOrders
    /\ now \in NowValues
    /\ returned = <<>>
    /\ stub = NoRun
    /\ pc = [c \in Calls |-> "idle"]
    /\ idx = [c \in Calls |-> 0]
    /\ all_validations = [c \in Calls |-> <<>>]
    /\ result = [c \in Calls |-> NoReport]
    /\ ServicesIdle
    /\ ClaudeIdle

\* all_validations = []
Enter(c) ==
    /\ pc[c] = "idle"
    /\ pc' = [pc EXCEPT ![c] = "loop"]
    /\ idx' = [idx EXCEPT ![c] = 1]
    /\ all_validations' = [all_validations EXCEPT ![Frame(c)] = <<>>]
    /\ UNCHANGED <<order, now, returned, stub, result>>
    /\ UNCHANGED <<svc_vars, claude_vars>>

\* one turn of the loop: validations = validator.validate(order_data); extend; or the except branch
Step(c) ==
    /\ pc[c] = "loop"
    /\ idx[c] <= Len(validators)
    /\ LET r == validate(validators[idx[c]], order, now)
       IN  /\ order' = r.order_data
           /\ IF r.exc # NoExc
              THEN /\ result' = [result EXCEPT ![c] =
                                    validate_order_from(
                                        [all_validations |-> all_validations[Frame(c)],
                                         exc |-> r.exc, order_data |-> r.order_data]).report]
                   /\ pc' = [pc EXCEPT ![c] = "done"]
                   /\ UNCHANGED <<idx, all_validations>>
              ELSE /\ all_validations' =
                        [all_validations EXCEPT ![Frame(c)] = all_validations[Frame(c)] \o r.results]
                   /\ idx' = [idx EXCEPT ![c] = idx[c] + 1]
                   /\ UNCHANGED <<pc, result>>
    /\ UNCHANGED <<now, returned, stub>>
    /\ UNCHANGED <<svc_vars, claude_vars>>

\* after the loop: status, counts, recommendations, return
Finish(c) ==
    /\ pc[c] = "loop"
    /\ idx[c] > Len(validators)
    /\ result' = [result EXCEPT ![c] =
                    validate_order_from(
                        [all_validations |-> all_validations[Frame(c)],
                         exc |-> NoExc, order_data |-> order]).report]
    /\ pc' = [pc EXCEPT ![c] = "done"]
    /\ UNCHANGED <<order, now, returned, stub, idx, all_validations>>
    /\ UNCHANGED <<svc_vars, claude_vars>>

NextConc == \E c \in Calls : Enter(c) \/ Step(c) \/ Finish(c)

SpecConc == InitConc /\ [][NextConc]_vars

(***************************************************************************)
(* Properties                                                              *)
(***************************************************************************)
RECURSIVE SumOver(_, _)
SumOver(f, keys) ==
    IF keys = {} THEN 0
    ELSE LET k == CHOOSE x \in keys : TRUE
         IN  f[k] + SumOver(f, keys \ {k})

\* some validator raises on the order o at time t
Raises(o, t) == \E i \in DOMAIN validators : validate(validators[i], o, t).exc # NoExc

SystemFinding(report) ==
    \E k \in DOMAIN report.validations : report.validations[k].field = "system"

\* C1: every validate_order call returns, never raises, and the Report it returns
\* has total_validations = len(validations) = the sum of the by_level counts.
C1_ReportWellFormed ==
    \A i \in DOMAIN returned :
        /\ returned[i].outcome = "returned"
        /\ LET r == returned[i].report
           IN  /\ r.summary.total_validations = Len(r.validations)
               /\ SumOver(r.summary.by_level, DOMAIN r.summary.by_level) = r.summary.total_validations

\* a call has returned for an order whose guests value is null (a validator raised)
C1_Witness ==
    /\ Len(returned) >= 1
    /\ order.order_info.tag = "dict"
    /\ order.order_info.guests = PyNone
    /\ returned[1].report.summary.total_validations = 1

\* C2: overall_status is 'critical' with a CRITICAL finding, else 'error' with an
\* ERROR finding, else 'warning' with a WARNING on portion_size, total_cost or
\* waiter_count, else 'valid'.
C2_StatusMapping ==
    \A i \in DOMAIN returned :
        LET r == returned[i].report
            has(level) == \E k \in DOMAIN r.validations : r.validations[k].level = level
            critical_field_warning ==
                \E k \in DOMAIN r.validations :
                    /\ r.validations[k].level = "warning"
                    /\ r.validations[k].field \in {"portion_size", "total_cost", "waiter_count"}
        IN  /\ has("critical") => r.overall_status = "critical"
            /\ ~has("critical") /\ has("error") => r.overall_status = "error"
            /\ ~has("critical") /\ ~has("error") /\ critical_field_warning
                    => r.overall_status = "warning"
            /\ ~has("critical") /\ ~has("error") /\ ~critical_field_warning
                    => r.overall_status = "valid"

\* a Report whose only findings above INFO are WARNINGs on the field timing is 'valid'
C2_Witness ==
    /\ Len(returned) = 1
    /\ LET r == returned[1].report
       IN  /\ r.overall_status = "valid"
           /\ \E k \in DOMAIN r.validations : r.validations[k].level = "warning"
           /\ \A k \in DOMAIN r.validations :
                r.validations[k].level = "info"
                \/ (r.validations[k].level = "warning" /\ r.validations[k].field = "timing")

\* C3: when a validator raises, the call still returns: a Report with status
\* 'error' and exactly one finding, an error on the field 'system'; what the
\* earlier validators reported is gone.
C3_ExceptionBecomesReport ==
    \A i \in DOMAIN returned :
        Raises(order, now) =>
            /\ returned[i].outcome = "returned"
            /\ LET r == returned[i].report
               IN  /\ r.overall_status = "error"
                   /\ Len(r.validations) = 1
                   /\ r.validations[1].level = "error"
                   /\ r.validations[1].field = "system"
                   /\ r.summary.total_validations = 1

\* a waiter service with a null quantity made ServiceValidator raise after
\* PortionValidator and CostValidator had reported
C3_Witness ==
    /\ Len(returned) >= 1
    /\ PortionValidator(order).exc = NoExc
    /\ Len(PortionValidator(order).results) = 1
    /\ CostValidator(order).exc = NoExc
    /\ ServiceValidator(order).exc = "TypeError: waiter_count += quantity"
    /\ SystemFinding(returned[1].report)

\* C4: by_level of every returned Report has an entry for each of the four levels.
C4_AllLevelsPresent ==
    \A i \in DOMAIN returned :
        DOMAIN returned[i].report.summary.by_level = ValidationLevel

\* C5: recommendations has at most 5 entries.
C5_AtMostFive ==
    \A i \in DOMAIN returned : Len(returned[i].report.recommendations) <= 5

\* six CRITICAL findings, each with a recommendation, gave five recommendations
C5_Witness ==
    /\ Len(returned) = 1
    /\ Len(stub.all_validations) = 6
    /\ \A k \in DOMAIN stub.all_validations : stub.all_validations[k].level = CRITICAL
    /\ Len(returned[1].report.recommendations) = 5

\* The list the recommendation rule prescribes for the findings fs: the
\* recommendations of the CRITICAL and ERROR findings, then those of the WARNING
\* findings that are new (not among the former, first occurrence only), cut to 5.
PrescribedRecommendations(fs) ==
    LET with(levels) ==
            SelectSeq(fs, LAMBDA f : f.level \in levels /\ f.recommendation # NoText)
        P == with({"critical", "error"})
        W == with({"warning"})
        kept == {k \in DOMAIN W :
                    /\ \A j \in DOMAIN P : P[j].recommendation # W[k].recommendation
                    /\ \A j \in 1..(k - 1) : W[j].recommendation # W[k].recommendation}
        nth(n) == CHOOSE k \in kept : Cardinality({j \in kept : j <= k}) = n
        all == [n \in 1..(Len(P) + Cardinality(kept)) |->
                    IF n <= Len(P) THEN P[n].recommendation ELSE W[nth(n - Len(P))].recommendation]
    IN  [n \in 1..Min(5, Len(all)) |-> all[n]]

RecommendationRule(r) ==
    /\ r.recommendations = PrescribedRecommendations(r.validations)
    /\ \A n \in DOMAIN r.recommendations :
        /\ \E k \in DOMAIN r.validations :
            /\ r.validations[k].level \in {"critical", "error", "warning"}
            /\ r.validations[k].recommendation = r.recommendations[n]
        /\ \A k \in DOMAIN r.validations :
            r.validations[k].level = "info" => r.validations[k].recommendation # r.recommendations[n]

\* C6 as claimed: the recommendations of every returned Report follow the rule
\* and each is the recommendation of a CRITICAL, ERROR or WARNING finding of the Report.
C6_Original ==
    \A i \in DOMAIN returned : RecommendationRule(returned[i].report)

\* C6 amended: the rule holds for the Reports of the normal path; the Report of
\* the exception path carries one fixed recommendation, which is not the
\* recommendation of its 'system' finding.
C6_RecommendationsOnNormalPath ==
    \A i \in DOMAIN returned :
        LET r == returned[i].report
        IN  IF SystemFinding(r)
            THEN /\ r.recommendations = <<Text("fix the errors in the order data", 0, 0, "")>>
                 /\ r.validations[1].recommendation # r.recommendations[1]
            ELSE RecommendationRule(r)

\* a normal-path Report where a WARNING repeats the recommendation of a CRITICAL
\* finding, a second WARNING occurs twice and an INFO finding has its own
C6_Witness ==
    /\ Len(returned) = 1
    /\ stub.exc = NoExc
    /\ Len(stub.all_validations) = 5
    /\ \E a, b, c, d \in DOMAIN stub.all_validations :
        /\ a # b
        /\ stub.all_validations[a].level = WARNING /\ stub.all_validations[a].recommendation = RecC
        /\ stub.all_validations[b].level = WARNING /\ stub.all_validations[b].recommendation = RecC
        /\ stub.all_validations[c].level = WARNING /\ stub.all_validations[c].recommendation = RecA
        /\ stub.all_validations[d].level = INFO
    /\ \E a \in DOMAIN stub.all_validations : stub.all_validations[a].level = CRITICAL
    /\ returned[1].report.recommendations = <<RecA, RecC>>

\* C7: two calls on the same order at the same time return identical Reports.
C7_Idempotent ==
    \A i, j \in DOMAIN returned : returned[i] = returned[j]

\* two calls have returned for an order with a parseable date
C7_Witness ==
    /\ Len(returned) = 2
    /\ \E k \in DOMAIN returned[2].report.validations :
        returned[2].report.validations[k].field = "timing"

\* C8: no step of validate_order changes the order.
C8_OrderNeverMutated == [][order' = order]_vars

\* a call has returned, on the normal path, for an order with missing sections
\* and a menu item without category
C8_Witness ==
    /\ Len(returned) >= 1
    /\ ~SystemFinding(returned[1].report)
    /\ order.order_info = Absent
    /\ order.menu_items = List(<<MenuItem(Absent), MenuItem(PyStr("unknown"))>>)

\* C9: whatever the interleaving, a finished call has returned the Report that
\* a call running alone returns for the order.
C9_ConcurrentCallsIndependent ==
    \A c \in Calls :
        pc[c] = "done" => result[c] = validate_order(order, now).report

\* call 2 ran from start to end while call 1 was inside its loop
C9_Witness ==
    /\ pc[1] = "loop"
    /\ idx[1] = 3
    /\ pc[2] = "done"
    /\ Len(result[2].validations) >= 4

\* C10: on the normal path validations is what PortionValidator, CostValidator,
\* ServiceValidator, TimingValidator and MenuValidator each return for the
\* order, concatenated in that order.
C10_ConcatenationOfValidators ==
    \A i \in DOMAIN returned :
        ~Raises(order, now) =>
            returned[i].report.validations =
                PortionValidator(order).results \o CostValidator(order).results
                \o ServiceValidator(order).results \o TimingValidator(order, now).results
                \o MenuValidator(order).results

\* guests <= 0 and an unparseable date each ended their validator with an ERROR,
\* and CostValidator and MenuValidator reported all the same
C10_Witness ==
    /\ Len(returned) >= 1
    /\ LET v == returned[1].report.validations
       IN  /\ Len(v) = 4
           /\ v[1].field = "guests"
           /\ v[2].field = "total_cost"
           /\ v[3].field = "event_date"
           /\ v[4].field = "menu_composition"

\* every value the order holds has the type the validators expect; keys may be missing
PresentAreTyped(o) ==
    /\ o.order_info.tag \in {"absent", "dict"}
    /\ o.order_info.tag = "dict" =>
        /\ o.order_info.guests.tag \in {"absent", "int"}
        /\ o.order_info.event_type.tag \in {"absent", "str"}
        /\ o.order_info.date.tag \in {"absent", "str"}
    /\ o.totals.tag \in {"absent", "dict"}
    /\ o.totals.tag = "dict" =>
        /\ o.totals.total_weight.tag \in {"absent", "int"}
        /\ o.totals.total_cost.tag \in {"absent", "int"}
    /\ o.services.tag \in {"absent", "list"}
    /\ o.services.tag = "list" =>
        \A k \in DOMAIN o.services.items :
            /\ o.services.items[k].name.tag \in {"absent", "str"}
            /\ o.services.items[k].quantity.tag \in {"absent", "int"}
    /\ o.menu_items.tag \in {"absent", "list"}

SomethingMissing(o) ==
    \/ "absent" \in {o.order_info.tag, o.totals.tag, o.services.tag, o.menu_items.tag}
    \/ o.order_info.tag = "dict"
        /\ "absent" \in {o.order_info.guests.tag, o.order_info.event_type.tag, o.order_info.date.tag}
    \/ o.totals.tag = "dict" /\ "absent" \in {o.totals.total_weight.tag, o.totals.total_cost.tag}

\* the order o with the documented defaults written in place of what is missing
WithDefaults(o) ==
    LET oi == IF o.order_info.tag = "absent"
              THEN [tag |-> "dict", guests |-> Absent, event_type |-> Absent, date |-> Absent]
              ELSE o.order_info
        tt == IF o.totals.tag = "absent"
              THEN [tag |-> "dict", total_weight |-> Absent, total_cost |-> Absent]
              ELSE o.totals
        or(v, default) == IF v.tag = "absent" THEN default ELSE v
    IN  [order_info |-> [tag |-> "dict",
                         guests |-> or(oi.guests, PyInt(0)),
                         event_type |-> or(oi.event_type, PyStr("buffet")),
                         date |-> oi.date],
         totals |-> [tag |-> "dict",
                     total_weight |-> or(tt.total_weight, PyInt(0)),
                     total_cost |-> or(tt.total_cost, PyInt(0))],
         services |-> or(o.services, [tag |-> "list", items |-> <<>>]),
         menu_items |-> or(o.menu_items, [tag |-> "list", items |-> <<>>])]

LevelsAndFields(report) ==
    [k \in DOMAIN report.validations |->
        <<report.validations[k].level, report.validations[k].field>>]

\* C11: an order with parts missing (and nothing ill-typed) never takes the
\* exception fallback; its Report is the Report of the same order with guests=0,
\* event_type='buffet', total_weight=0, total_cost=0 and empty lists written in;
\* the empty order yields ERROR(guests), ERROR(total_cost), ERROR(menu_items)
\* and status 'error'.
C11_MissingPartsDefaulted ==
    \A i \in DOMAIN returned :
        PresentAreTyped(order) /\ SomethingMissing(order) =>
            LET r == returned[i].report
            IN  /\ ~SystemFinding(r)
                /\ r = validate_order(WithDefaults(order), now).report
                /\ order = EmptyOrder =>
                    /\ LevelsAndFields(r) = << <<"error", "guests">>, <<"error", "total_cost">>,
                                               <<"error", "menu_items">> >>
                    /\ r.overall_status = "error"

\* the empty order has been validated
C11_Witness ==
    /\ Len(returned) >= 1
    /\ order = EmptyOrder
    /\ Len(returned[1].report.validations) = 3

(***************************************************************************)
(* SpecScenarios: validate_order on the orders of test_integration.py and  *)
(* their neighbours: the three test orders with their guests, event types, *)
(* weights and costs exchanged, each under several menus, services, dates. *)
(***************************************************************************)
ScenarioOrders ==
    {Order([tag |-> "dict", guests |-> PyInt(g), event_type |-> PyStr(e), date |-> d],
           m, sv,
           [tag |-> "dict", total_weight |-> PyInt(w), total_cost |-> PyInt(c)]) :
        g \in {5, 30, 50}, e \in {"coffee_break", "buffet"},
        w \in {1500, 8000, 10500}, c \in {8000, 45000, 75000},
        d \in {Absent, PyStr("2025-06-04"), PyInt(20250602)},
        m \in {List(<<>>), List(<<MenuItem(Absent)>>),
               List(<<MenuItem(PyStr("canape")), MenuItem(PyStr("salad"))>>)},
        sv \in {List(<<>>), List(<<Service(Name(Waiter), PyInt(2))>>),
                List(<<Service(Name(Waiter), PyInt(5))>>),
                List(<<Service(Name(Waiter), PyNone)>>)}}

InitScenarios ==
    /\ order \in ScenarioOrders
    /\ now \in NowValues
    /\ returned = <<>>
    /\ stub = NoRun
    /\ pc = [c \in Calls |-> "idle"]
    /\ idx = [c \in Calls |-> 0]
    /\ all_validations = [c \in Calls |-> <<>>]
    /\ result = [c \in Calls |-> NoReport]
    /\ ServicesIdle
    /\ ClaudeIdle

SpecScenarios == InitScenarios /\ [][Next]_vars

\* what the rules read from the order: the value under the key, its default
\* when the key or the section is missing, None when the section is None
Field(section, key, default) ==
    IF section.tag = "absent" THEN default
    ELSE IF section.tag = "dict" THEN (IF section[key].tag = "absent" THEN default ELSE section[key])
    ELSE PyNone

\* guests > 0 and total_weight / guests < 250
CriticallyShort(o) ==
    LET guests == Field(o.order_info, "guests", PyInt(0))
        total_weight == Field(o.totals, "total_weight", PyInt(0))
    IN  /\ o.order_info.tag # "null" /\ o.totals.tag # "null"
        /\ guests.tag = "int" /\ total_weight.tag = "int"
        /\ guests.n > 0
        /\ total_weight.n < 250 * guests.n

EmitsCritical(o) ==
    /\ PortionValidator(o).exc = NoExc
    /\ Len(PortionValidator(o).results) = 1
    /\ PortionValidator(o).results[1].level = "critical"
    /\ PortionValidator(o).results[1].field = "portion_size"

\* C12 as claimed: guests > 0 and total_weight / guests < 250 make
\* PortionValidator emit CRITICAL and the status 'critical' whatever the other
\* validators do; when no validator raises the status is 'critical' only then.
C12_Original ==
    \A i \in DOMAIN returned :
        /\ CriticallyShort(order) =>
            EmitsCritical(order) /\ returned[i].report.overall_status = "critical"
        /\ ~Raises(order, now) /\ returned[i].report.overall_status = "critical"
            => CriticallyShort(order)

\* C12 amended: guests > 0 and total_weight / guests < 250 make PortionValidator
\* emit CRITICAL; when no validator raises, the status is 'critical' exactly in
\* that case; when a validator raises, the status is 'error' although the
\* portion is critically short.
C12_CriticalUnlessRaised ==
    \A i \in DOMAIN returned :
        /\ CriticallyShort(order) => EmitsCritical(order)
        /\ ~Raises(order, now) =>
            (returned[i].report.overall_status = "critical" <=> CriticallyShort(order))
        /\ Raises(order, now) => returned[i].report.overall_status = "error"

\* Scenario A has been validated: CRITICAL on the portion next to two WARNINGs
C12_Witness ==
    /\ Len(returned) >= 1
    /\ order = Order([tag |-> "dict", guests |-> PyInt(50), event_type |-> PyStr("buffet"),
                      date |-> Absent],
                     List(<<MenuItem(Absent)>>), List(<<>>),
                     [tag |-> "dict", total_weight |-> PyInt(8000), total_cost |-> PyInt(45000)])
    /\ LevelsAndFields(returned[1].report) =
        << <<"critical", "portion_size">>, <<"warning", "cost_per_guest">>,
           <<"warning", "menu_composition">> >>
    /\ returned[1].report.overall_status = "critical"

\* total_cost < 10000 (the default 0 when missing)
BelowMinimum(o) ==
    LET total_cost == Field(o.totals, "total_cost", PyInt(0))
    IN  total_cost.tag = "int" /\ total_cost.n < 10000

\* C13: a total cost below 10000 with a portion that is not critically short
\* gives the status 'error', and, unless a validator raises, an ERROR on
\* total_cost, also when the portion finding is INFO.
C13_BelowMinimumIsError ==
    \A i \in DOMAIN returned :
        BelowMinimum(order) /\ ~CriticallyShort(order) =>
            /\ returned[i].report.overall_status = "error"
            /\ ~Raises(order, now) =>
                \E k \in DOMAIN returned[i].report.validations :
                    /\ returned[i].report.validations[k].level = "error"
                    /\ returned[i].report.validations[k].field = "total_cost"

\* Scenario B has been validated: INFO on the portion, ERROR on total_cost
C13_Witness ==
    /\ Len(returned) >= 1
    /\ order = Order([tag |-> "dict", guests |-> PyInt(5), event_type |-> PyStr("coffee_break"),
                      date |-> Absent],
                     List(<<MenuItem(Absent)>>), List(<<>>),
                     [tag |-> "dict", total_weight |-> PyInt(1500), total_cost |-> PyInt(8000)])
    /\ LevelsAndFields(returned[1].report) =
        << <<"info", "portion_size">>, <<"error", "total_cost">>,
           <<"warning", "menu_composition">> >>
    /\ returned[1].report.overall_status = "error"

\* Scenario C: 30 guests, buffet, 10500 g, 75000, two categories, two waiters;
\* no date, or a date at least the required 72 hours ahead
ScenarioC(o, t) ==
    /\ o.order_info.tag = "dict"
    /\ o.order_info.guests = PyInt(30)
    /\ o.order_info.event_type = PyStr("buffet")
    /\ o.totals = [tag |-> "dict", total_weight |-> PyInt(10500), total_cost |-> PyInt(75000)]
    /\ o.menu_items = List(<<MenuItem(PyStr("canape")), MenuItem(PyStr("salad"))>>)
    /\ o.services = List(<<Service(Name(Waiter), PyInt(2))>>)
    /\ \/ o.order_info.date = Absent
       \/ /\ o.order_info.date.tag = "str"
          /\ o.order_info.date.s \in DOMAIN DayOf
          /\ 24 * DayOf[o.order_info.date.s] - t >= 72

EmptyMenu(o) ==
    \/ o.menu_items.tag = "absent"
    \/ o.menu_items.tag = "list" /\ Len(o.menu_items.items) = 0

\* C15: on an empty menu MenuValidator returns exactly one finding, an ERROR on
\* menu_items, and the status of the Report is 'error' or 'critical', never
\* 'valid' or 'warning', whatever the other validators report.
C15_EmptyMenuAtLeastError ==
    EmptyMenu(order) =>
        /\ MenuValidator(order).exc = NoExc
        /\ Len(MenuValidator(order).results) = 1
        /\ MenuValidator(order).results[1].level = "error"
        /\ MenuValidator(order).results[1].field = "menu_items"
        /\ \A i \in DOMAIN returned : returned[i].report.overall_status \in {"error", "critical"}

\* an order whose only finding above INFO is the one of the empty menu
C15_Witness ==
    /\ Len(returned) >= 1
    /\ order.menu_items = List(<<>>)
    /\ LET v == returned[1].report.validations
       IN  /\ Len(v) >= 3
           /\ \A k \in DOMAIN v : v[k].level = "info" \/ v[k].field = "menu_items"
    /\ returned[1].report.overall_status = "error"

\* the event type is given and is none of coffee_break, buffet, banquet
UnknownEventType(o) ==
    /\ o.order_info.tag = "dict"
    /\ o.order_info.event_type.tag = "str"
    /\ o.order_info.event_type.s \notin {"coffee_break", "buffet", "banquet"}

AsBuffet(o) == [o EXCEPT !.order_info.event_type = PyStr("buffet")]

\* C16: for an order with an unknown event type, the level and field of every
\* finding, the summary and the status are those of the same order with
\* event_type = 'buffet'.
C16_UnknownTypeIsBuffet ==
    \A i \in DOMAIN returned :
        UnknownEventType(order) =>
            LET r == returned[i].report
                b == validate_order(AsBuffet(order), now).report
            IN  /\ LevelsAndFields(r) = LevelsAndFields(b)
                /\ r.summary = b.summary
                /\ r.overall_status = b.overall_status

\* a 'wedding' with 700 g per guest: outside the buffet range, inside the banquet range
C16_Witness ==
    /\ Len(returned) >= 1
    /\ UnknownEventType(order)
    /\ order.order_info.guests = PyInt(20)
    /\ order.totals.tag = "dict"
    /\ order.totals.total_weight = PyInt(14000)
    /\ ~SystemFinding(returned[1].report)
    /\ returned[1].report.validations[1].level = "warning"
    /\ returned[1].report.validations[1].field = "portion_size"
    /\ returned[1].report.validations[2].field \in {"cost_per_guest", "total_cost"}

(***************************************************************************)
(* SpecValidators: one validator applied to one order.  The orders vary    *)
(* guests, event type, total weight and total cost around every threshold  *)
(* of PortionValidator and CostValidator.                                  *)
(***************************************************************************)
ThresholdGuests == {Absent, PyInt(0 - 1), PyInt(0), PyInt(1), PyInt(30)}
ThresholdEventTypes ==
    {Absent, PyStr("coffee_break"), PyStr("buffet"), PyStr("banquet"), PyStr("wedding")}
ThresholdWeights ==
    {Absent} \cup
    {PyInt(w) : w \in {249, 250, 750, 751, 7499, 7500, 9000, 9001, 12690, 12691,
                       17999, 18000, 22500, 22501, 24000}}
ThresholdCosts ==
    {Absent} \cup
    {PyInt(c) : c \in {9999, 10000, 24149, 24150, 48299, 48300, 76500, 76501, 148500, 148501}}

ValidatorOrders ==
    {Order([tag |-> "dict", guests |-> g, event_type |-> e, date |-> Absent],
           List(<<>>), List(<<>>),
           [tag |-> "dict", total_weight |-> w, total_cost |-> c]) :
        g \in ThresholdGuests, e \in ThresholdEventTypes,
        w \in ThresholdWeights, c \in ThresholdCosts}

InitValidators ==
    /\ order \in ValidatorOrders
    /\ now = 0
    /\ returned = <<>>
    /\ stub = NoRun
    /\ pc = [c \in Calls |-> "idle"]
    /\ idx = [c \in Calls |-> 0]
    /\ all_validations = [c \in Calls |-> <<>>]
    /\ result = [c \in Calls |-> NoReport]
    /\ ServicesIdle
    /\ ClaudeIdle

\* validations = validator.validate(order_data), for the validator at position v;
\* stub keeps what it returned and idx which validator it was
RunValidator ==
    /\ \A c \in Calls : idx[c] = 0
    /\ \E v \in DOMAIN validators :
        LET r == validate(validators[v], order, now)
        IN  /\ stub' = [all_validations |-> r.results, exc |-> r.exc, order_data |-> r.order_data]
            /\ idx' = [c \in Calls |-> v]
            /\ order' = r.order_data
    /\ UNCHANGED <<now, returned, pc, all_validations, result>>
    /\ UNCHANGED <<svc_vars, claude_vars>>

NextValidators == RunValidator

SpecValidators == InitValidators /\ [][NextValidators]_vars

Applied(validator) ==
    \E v \in DOMAIN validators : validators[v] = validator /\ \A c \in Calls : idx[c] = v

\* the portion range of the event type, buffet for any other type
PortionRange(event_type) ==
    IF event_type = PyStr("coffee_break") THEN [min |-> 250, max |-> 300]
    ELSE IF event_type = PyStr("banquet") THEN [min |-> 600, max |-> 1000]
    ELSE [min |-> 250, max |-> 423]

\* C19: PortionValidator returns exactly one finding: ERROR on guests when
\* guests <= 0; otherwise one finding on portion_size, by first match on
\* g = total_weight / guests: g < 250 CRITICAL, g > 750 WARNING, min <= g <= max
\* of the type's range INFO, else WARNING; g = 250 and g = 750 are neither
\* CRITICAL nor the '> 750' WARNING.
C19_PortionClassification ==
    Applied("PortionValidator") =>
        LET guests == Field(order.order_info, "guests", PyInt(0)).n
            w == Field(order.totals, "total_weight", PyInt(0)).n
            range == PortionRange(Field(order.order_info, "event_type", PyStr("buffet")))
            found == stub.all_validations
        IN  /\ stub.exc = NoExc
            /\ Len(found) = 1
            /\ IF guests <= 0
               THEN found[1].level = "error" /\ found[1].field = "guests"
               ELSE /\ found[1].field = "portion_size"
                    /\ found[1].level =
                        (IF w < 250 * guests THEN "critical"
                         ELSE IF w > 750 * guests THEN "warning"
                         ELSE IF range.min * guests <= w /\ w <= range.max * guests THEN "info"
                         ELSE "warning")
                    /\ found[1].message.id = "too much food" <=> w > 750 * guests
                    /\ w \in {250 * guests, 750 * guests} =>
                        /\ found[1].level # "critical"
                        /\ found[1].message.id # "too much food"

\* exactly 750 g per guest at a banquet: INFO, not the '> 750' WARNING
C19_Witness ==
    /\ Applied("PortionValidator")
    /\ order.order_info.guests = PyInt(30)
    /\ order.order_info.event_type = PyStr("banquet")
    /\ order.totals.total_weight = PyInt(22500)
    /\ Len(stub.all_validations) = 1
    /\ stub.all_validations[1].level = "info"

\* the cost-per-guest range of the event type, buffet for any other type
CostRange(event_type) ==
    IF event_type = PyStr("coffee_break") THEN [min |-> 1150, max |-> 1700]
    ELSE IF event_type = PyStr("banquet") THEN [min |-> 4700, max |-> 8600]
    ELSE [min |-> 2300, max |-> 3300]

\* C20: CostValidator returns at most one finding: ERROR on total_cost when
\* total_cost < 10000; otherwise, with guests > 0, one finding on
\* c = total_cost / guests: WARNING on cost_per_guest when c < 0.7 * min or
\* c > 1.5 * max of the type's range, else INFO on total_cost; otherwise nothing.
C20_CostClassification ==
    Applied("CostValidator") =>
        LET guests == Field(order.order_info, "guests", PyInt(0)).n
            total_cost == Field(order.totals, "total_cost", PyInt(0)).n
            range == CostRange(Field(order.order_info, "event_type", PyStr("buffet")))
            found == stub.all_validations
            levels_and_fields == [k \in DOMAIN found |-> <<found[k].level, found[k].field>>]
        IN  /\ stub.exc = NoExc
            /\ Len(found) <= 1
            /\ levels_and_fields =
                (IF total_cost < 10000 THEN << <<"error", "total_cost">> >>
                 ELSE IF guests > 0
                 THEN IF 10 * total_cost < 7 * range.min * guests
                         \/ 10 * total_cost > 15 * range.max * guests
                      THEN << <<"warning", "cost_per_guest">> >>
                      ELSE << <<"info", "total_cost">> >>
                 ELSE << >>)

\* 1610 per guest at a buffet, exactly 0.7 * 2300: INFO on total_cost
C20_Witness ==
    /\ Applied("CostValidator")
    /\ order.order_info.guests = PyInt(30)
    /\ order.order_info.event_type = PyStr("buffet")
    /\ order.totals.total_cost = PyInt(48300)
    /\ Len(stub.all_validations) = 1
    /\ stub.all_validations[1].level = "info"
    /\ stub.all_validations[1].field = "total_cost"

\* C17: if an expert stage of process_estimate_request raises, the exception
\* reaches the caller of process_estimate_request with its original message
\* (menu selection raising 'Menu selection failed' after a sufficient analysis
\* is one such stage).
C17_StageErrorPropagates ==
    \A r \in Requests :
        raised[r].service \in Experts =>
            /\ expert_result[r].outcome = "raised"
            /\ expert_result[r].error = raised[r].str

\* the call r of create_complete_estimate has returned or raised
Finished(r) == at[r] = "done"
PipelineNeedsMoreInfo(r) ==
    /\ Finished(r)
    /\ expert_result[r].outcome = "returned"
    /\ ~expert_result[r].success
    /\ expert_result[r].needs_more_info
PipelineFailed(r) ==
    /\ Finished(r)
    /\ expert_result[r].outcome = "returned"
    /\ ~expert_result[r].success
    /\ ~expert_result[r].needs_more_info
SheetsStepRaised(r) ==
    /\ Finished(r)
    /\ raised[r].service \in {"initialize", "copy", "fill"}
NothingCreated(r) == r \notin drive_files /\ r \notin pdf_files

NeverRaises(r) == estimate_result[r].outcome # "raised"
NeedsMoreInfoPassedOn(r) ==
    PipelineNeedsMoreInfo(r) =>
        /\ estimate_result[r].outcome = "returned"
        /\ ~estimate_result[r].success
        /\ estimate_result[r].needs_more_info
        /\ estimate_result[r].response = expert_result[r].response
CausePassedOn(r) ==
    /\ PipelineFailed(r) =>
            /\ estimate_result[r].outcome = "returned"
            /\ ~estimate_result[r].success
            /\ estimate_result[r].error # NoStr
            /\ Contains(expert_result[r].error, estimate_result[r].error)
    /\ SheetsStepRaised(r) =>
            /\ estimate_result[r].outcome = "returned"
            /\ ~estimate_result[r].success
            /\ estimate_result[r].error # NoStr
            /\ Contains(raised[r].str, estimate_result[r].error)
NoSheetNoPdf(r) ==
    (PipelineNeedsMoreInfo(r) \/ PipelineFailed(r) \/ SheetsStepRaised(r)) => NothingCreated(r)

\* C18: create_complete_estimate reports failures as values and never raises:
\* a pipeline result with needs_more_info is passed on as success=False,
\* needs_more_info=True and the response text; a pipeline failure or a raising
\* Sheets step gives success=False and an error string containing the cause;
\* and in none of these cases is a Google Sheet or a PDF created.
C18_FailuresAreValues ==
    \A r \in Requests :
        /\ NeverRaises(r)
        /\ NeedsMoreInfoPassedOn(r)
        /\ CausePassedOn(r)
        /\ NoSheetNoPdf(r)

(***************************************************************************)
(* SpecChecks: one validator is applied to one order; the orders vary the  *)
(* services around the waiter ratios, the date and the time of the call    *)
(* around the lead times, and the menu around the two categories.          *)
(***************************************************************************)
SeniorWaiter == <<"S", "t", "a", "r", "s", "h", "i", "y", " ", "o", "f", "i", "c", "i", "a", "n", "t">>
StaffingGuests == {Absent} \cup {PyInt(g) : g \in {0, 29, 30, 59, 60, 90, 105}}
StaffingServices ==
    {Absent, List(<<>>), List(<<Service(Name(Delivery), PyInt(3))>>),
     List(<<Service(Name(Delivery), PyNone)>>),
     List(<<Service(Name(Waiter), Absent)>>),
     List(<<Service(Name(Waiter), PyNone)>>),
     List(<<Service(Name(Waiter), PyInt(1)), Service(Name(Waiter), PyInt(0 - 1))>>),
     List(<<Service(Name(Waiter), PyInt(2)), Service(Name(Delivery), PyInt(5))>>),
     List(<<Service(Name(SeniorWaiter), PyInt(1)), Service(Name(Waiter), PyInt(2))>>),
     List(<<Service(Name(Waiter), PyInt(2)), Service(Name(Waiter), PyNone)>>)} \cup
    {List(<<Service(Name(Waiter), PyInt(q))>>) : q \in {0 - 1, 0, 1, 2, 3, 4, 6, 7, 8}}
StaffingOrders ==
    {Order([tag |-> "dict", guests |-> g, event_type |-> PyStr("buffet"), date |-> Absent],
           List(<<MenuItem(PyStr("canape"))>>), sv,
           [tag |-> "dict", total_weight |-> PyInt(10500), total_cost |-> PyInt(75000)]) :
        g \in StaffingGuests, sv \in StaffingServices}

TimingDates ==
    {Absent, PyNone, PyStr(""), PyStr("15.06.2025"),
     PyStr("2025-06-01"), PyStr("2025-06-02"), PyStr("2025-06-03"), PyStr("2025-06-04"), PyStr("2025-06-05")}
TimingServices == {Absent, List(<<>>), List(<<Service(Name(Delivery), PyInt(1))>>)}
TimingCosts == {Absent, PyInt(60000), PyInt(60001)}
TimingNow == {0, 1, 36}
TimingOrders ==
    {Order([tag |-> "dict", guests |-> PyInt(30), event_type |-> PyStr("buffet"), date |-> d],
           List(<<MenuItem(PyStr("canape"))>>), sv,
           [tag |-> "dict", total_weight |-> PyInt(10500), total_cost |-> c]) :
        d \in TimingDates, sv \in TimingServices, c \in TimingCosts}

MenuOrders ==
    {Order([tag |-> "dict", guests |-> PyInt(30), event_type |-> PyStr("buffet"), date |-> Absent],
           m, List(<<>>),
           [tag |-> "dict", total_weight |-> PyInt(10500), total_cost |-> PyInt(75000)]) :
        m \in {Absent, PyNone, List(<<>>),
               List(<<MenuItem(Absent)>>),
               List(<<MenuItem(PyStr("canape"))>>),
               List(<<MenuItem(PyStr("canape")), MenuItem(PyStr("canape"))>>),
               List(<<MenuItem(Absent), MenuItem(PyStr("unknown"))>>),
               List(<<MenuItem(Absent), MenuItem(PyStr("canape"))>>),
               List(<<MenuItem(PyStr("canape")), MenuItem(PyStr("salad"))>>),
               List(<<MenuItem(PyStr("canape")), MenuItem(PyStr("salad")), MenuItem(PyStr("dessert"))>>)}}

InitChecks ==
    /\ order \in StaffingOrders \cup TimingOrders \cup MenuOrders
    /\ now \in TimingNow
    /\ returned = <<>>
    /\ stub = NoRun
    /\ pc = [c \in Calls |-> "idle"]
    /\ idx = [c \in Calls |-> 0]
    /\ all_validations = [c \in Calls |-> <<>>]
    /\ result = [c \in Calls |-> NoReport]
    /\ ServicesIdle
    /\ ClaudeIdle

SpecChecks == InitChecks /\ [][NextValidators]_vars

\* the quantities of the services whose lowercased name contains the keyword,
\* a missing quantity counting 0
WaiterQuantities(services) ==
    LET waiters == SelectSeq(services, LAMBDA sv : Contains(WAITER_KEYWORD, lower(sv.name.chars)))
    IN  [i \in DOMAIN waiters |-> Get(waiters[i].quantity, PyInt(0))]
IntegerQuantities(services) ==
    \A i \in DOMAIN WaiterQuantities(services) : WaiterQuantities(services)[i].tag = "int"
WaiterCount(services) ==
    LET q == WaiterQuantities(services)
    IN  SumOver([i \in DOMAIN q |-> q[i].n], DOMAIN q)

\* the finding ServiceValidator is to give for waiter_count waiters and guests guests
Staffing(found, waiter_count, guests) ==
    LET min_waiters == Max(1, guests \div 30)
        max_waiters == Max(2, guests \div 15)
    IN  /\ Len(found) = 1
        /\ found[1].field = "waiter_count"
        /\ found[1].level =
             (IF waiter_count < min_waiters \/ waiter_count > max_waiters THEN "warning" ELSE "info")
        /\ found[1].message.id = "too few waiters" <=> waiter_count < min_waiters
        /\ found[1].message.id = "too many waiters" <=>
             (waiter_count >= min_waiters /\ waiter_count > max_waiters)

\* C21 as claimed: no finding if and only if waiter_count == 0, otherwise the
\* one finding on waiter_count, for quantities that are integers or missing.
C21_Original ==
    (Applied("ServiceValidator") /\ IntegerQuantities(Get(order.services, EmptyList).items)) =>
        LET waiter_count == WaiterCount(Get(order.services, EmptyList).items)
            guests == Field(order.order_info, "guests", PyInt(0)).n
        IN  /\ stub.exc = NoExc
            /\ stub.all_validations = <<>> <=> waiter_count = 0
            /\ waiter_count # 0 => Staffing(stub.all_validations, waiter_count, guests)

\* C21 amended: waiter_count is the sum of the quantities (a missing one
\* counting 0) of the services whose name contains the waiter keyword in any
\* case; ServiceValidator gives no finding if and only if waiter_count <= 0,
\* otherwise exactly one finding on waiter_count: WARNING below
\* max(1, guests div 30), WARNING above max(2, guests div 15), else INFO; a
\* waiter service whose quantity is null makes it raise instead.
C21_StaffingClassification ==
    Applied("ServiceValidator") =>
        LET services == Get(order.services, EmptyList).items
            waiter_count == WaiterCount(services)
            guests == Field(order.order_info, "guests", PyInt(0)).n
        IN  IF ~IntegerQuantities(services)
            THEN stub.exc # NoExc /\ stub.all_validations = <<>>
            ELSE /\ stub.exc = NoExc
                 /\ stub.all_validations = <<>> <=> waiter_count <= 0
                 /\ waiter_count > 0 => Staffing(stub.all_validations, waiter_count, guests)

\* 90 guests and 'Starshiy oficiant' 1 + 'Oficiant' 2: three waiters, the
\* minimum, are INFO
C21_Witness ==
    /\ Applied("ServiceValidator")
    /\ order.order_info.guests = PyInt(90)
    /\ order.services = List(<<Service(Name(SeniorWaiter), PyInt(1)), Service(Name(Waiter), PyInt(2))>>)
    /\ Len(stub.all_validations) = 1
    /\ stub.all_validations[1].level = "info"

\* no date is given: the key is missing, or holds None or the empty string
NoDate(date) == date.tag \in {"absent", "null"} \/ date = PyStr("")

\* the lead time the order needs, in hours
RequiredHours(services, total_cost) ==
    IF services = <<>> THEN 24 ELSE IF total_cost > 60000 THEN 72 ELSE 48

Categories(items) == {Get(items[i].category, PyStr("unknown")) : i \in DOMAIN items}

\* C23: MenuValidator gives exactly one finding for every order: ERROR on
\* menu_items when the menu is empty; otherwise a finding on menu_composition,
\* WARNING with fewer than 2 distinct categories and INFO otherwise, an item
\* without a category counting as 'unknown'.
C23_MenuClassification ==
    Applied("MenuValidator") =>
        LET menu_items == Get(order.menu_items, EmptyList)
            found == stub.all_validations
        IN  /\ stub.exc = NoExc
            /\ Len(found) = 1
            /\ IF menu_items.tag # "list" \/ menu_items.items = <<>>
               THEN found[1].level = "error" /\ found[1].field = "menu_items"
               ELSE /\ found[1].field = "menu_composition"
                    /\ found[1].level =
                         (IF Cardinality(Categories(menu_items.items)) < 2 THEN "warning" ELSE "info")

\* an item without a category next to an 'unknown' one: one category, WARNING
C23_Witness ==
    /\ Applied("MenuValidator")
    /\ order.menu_items = List(<<MenuItem(Absent), MenuItem(PyStr("unknown"))>>)
    /\ Len(stub.all_validations) = 1
    /\ stub.all_validations[1].level = "warning"
    /\ stub.all_validations[1].field = "menu_composition"

IsPrefix(p, q) == Len(p) <= Len(q) /\ SubSeq(q, 1, Len(p)) = p
Invoked(r, expert) == \E i \in DOMAIN invoked[r] : invoked[r][i] = expert
Sufficient(r) == _has_sufficient_info(analysis[r], request[r].user_input)

\* the experts of call r are called in the fixed order, one at a time, and
\* optimize_budget exactly when a target budget is known
InFixedOrder(r) ==
    /\ \/ IsPrefix(invoked[r], <<"analyze_request", "generate_response">>)
       \/ IsPrefix(invoked[r], <<"analyze_request", "select_menu", "validate_portions",
                                 "optimize_budget", "format_for_sheets">>)
       \/ IsPrefix(invoked[r], <<"analyze_request", "select_menu", "validate_portions",
                                 "format_for_sheets">>)
    /\ Invoked(r, "format_for_sheets") =>
         (Invoked(r, "optimize_budget") <=> HasTargetBudget(analysis[r], request[r].context))
    /\ at[r] \in Experts => at[r] = invoked[r][Len(invoked[r])]

\* select_menu and the later experts are called only after a sufficient analysis
OnlyIfSufficient(r) ==
    \A expert \in {"select_menu", "validate_portions", "optimize_budget", "format_for_sheets"} :
        Invoked(r, expert) => (analysis[r] # NoAnalysis /\ Sufficient(r))

\* after an insufficient analysis the call returns the needs_more_info dict
ElseNeedsMoreInfo(r) ==
    (expert_result[r].outcome = "returned" /\ analysis[r] # NoAnalysis /\ ~Sufficient(r)) =>
        /\ ~expert_result[r].success
        /\ expert_result[r].needs_more_info
        /\ expert_result[r].stage = "conversation"
        /\ ~Invoked(r, "select_menu")

\* the completed result is returned only after format_for_sheets has returned
CompletedAfterFormat(r) ==
    (expert_result[r].success \/ expert_result[r].stage = "completed") =>
        /\ expert_result[r].success /\ expert_result[r].stage = "completed"
        /\ invoked[r][Len(invoked[r])] = "format_for_sheets"
        /\ at[r] \notin Experts

\* C24: process_estimate_request calls its experts strictly one after another
\* in the order analyze_request, select_menu, validate_portions,
\* optimize_budget (only with a target budget), format_for_sheets; select_menu
\* and the later ones only after the sufficiency check passed, otherwise the
\* call returns success=False, needs_more_info=True, stage 'conversation'
\* without them; success=True with stage 'completed' only after
\* format_for_sheets returned.
C24_ExpertOrder ==
    \A r \in Requests :
        /\ InFixedOrder(r)
        /\ OnlyIfSufficient(r)
        /\ ElseNeedsMoreInfo(r)
        /\ CompletedAfterFormat(r)

Succeeded(r) == estimate_result[r].outcome = "returned" /\ estimate_result[r].success

\* the stages of call r come in the order pipeline, sheet, PDF
StagesInOrder(r) ==
    /\ (at[r] \in {"initialize", "fill_sheet", "generate_pdf"} \/ r \in drive_files) =>
          /\ expert_result[r].outcome = "returned"
          /\ expert_result[r].success
    /\ (at[r] = "generate_pdf" \/ r \in pdf_files) => r \in drive_files
    /\ Succeeded(r) =>
          /\ r \in drive_files
          /\ estimate_result[r].pdf_generated <=> r \in pdf_files
          /\ estimate_result[r].sheet_id = r

\* the step in which call r returns its result after the PDF step
Completes(r) == at[r] = "generate_pdf" /\ at'[r] = "done"

\* what the completing step of call r leaves behind
CompletionRecorded(r) ==
    Completes(r) =>
        LET res == estimate_result'[r]
            context == request[r].context
            number == expert_result[r].sheets_data.number
        IN  /\ res.outcome = "returned" /\ res.success /\ res.stage = "completed"
            /\ session_id[r] \in DOMAIN completed_estimates'
            /\ completed_estimates'[session_id[r]] = res
            /\ number.tag # "absent" => res.order_number = number
            /\ (context.tag = "dict" /\ context.session_id.tag # "absent") =>
                  res.session_id = context.session_id
            /\ _stats'.total_created = _stats.total_created + 1
            /\ _stats'.total_failed = _stats.total_failed

\* total_created changes in completing steps only
CountedOnce ==
    _stats'.total_created # _stats.total_created => \E r \in Requests : Completes(r)

\* C25: create_complete_estimate goes through pipeline, sheet creation and PDF
\* generation in this order: the sheet only after the pipeline returned
\* success=True, the PDF only after the sheet; a PDF step without a file still
\* gives success=True with pdf.generated=False; on success the result is stored
\* in completed_estimates under the session_id, carries the order number of
\* sheets_data and the caller's session_id, and total_created grows by one.
C25_StagesAndCompletion ==
    /\ [](\A r \in Requests : StagesInOrder(r))
    /\ [][(\A r \in Requests : CompletionRecorded(r)) /\ CountedOnce]_vars

\* a call that succeeded without a PDF file, stored under its session id
C25_Witness ==
    \E r \in Requests :
        /\ Succeeded(r)
        /\ ~estimate_result[r].pdf_generated
        /\ r \notin pdf_files
        /\ estimate_result[r].order_number = OrderNumber
        /\ estimate_result[r].session_id = PyStr("test_session_123")
        /\ completed_estimates[session_id[r]] = estimate_result[r]
        /\ _stats.total_created = 1

\* EstimateService.get_stats()
get_stats ==
    [service_stats |-> _stats,
     active_processing |-> Cardinality(DOMAIN processing_estimates),
     completed_estimates |-> Cardinality(DOMAIN completed_estimates),
     processing_sessions |-> DOMAIN processing_estimates]

InProgress(r) == at[r] \notin {"idle", "done"}

\* C29: processing_estimates holds only the calls in flight: every call
\* removes its session entry before it returns, on the success, the failure and
\* the needs-more-info path, so with no call in progress the dict is empty and
\* get_stats reports active_processing = 0.
C29_ProcessingOnlyInFlight ==
    /\ \A r \in Requests :
          (Finished(r) /\ \A q \in Requests : InProgress(q) => session_id[q] # session_id[r]) =>
              session_id[r] \notin DOMAIN processing_estimates
    /\ (\A r \in Requests : ~InProgress(r)) =>
          /\ processing_estimates = EmptyDict
          /\ get_stats.active_processing = 0

OwnFailure(r) ==
    /\ raised[r] # NoException
    /\ ~estimate_result[r].success
    /\ estimate_result[r].error \in {raised[r].str, ExpertAnalysisFailed(raised[r].str)}
OwnNeedsMoreInfo(r) ==
    /\ raised[r] = NoException
    /\ PipelineNeedsMoreInfo(r)
    /\ ~estimate_result[r].success
    /\ estimate_result[r].needs_more_info
OwnSuccess(r) ==
    /\ raised[r] = NoException
    /\ expert_result[r].success
    /\ estimate_result[r].success
    /\ estimate_result[r].order_number = order_number[r]
    /\ estimate_result[r].sheet_id = r

\* C30: overlapping create_complete_estimate calls do not interfere: under
\* every interleaving at the awaits a call's result is decided by the outcomes
\* of its own expert, Sheets and PDF steps (it fails only with the exception
\* one of its own steps raised), also when two calls share a session_id.
C30_CallsIndependent ==
    \A r \in Requests :
        Finished(r) => OwnFailure(r) \/ OwnNeedsMoreInfo(r) \/ OwnSuccess(r)

\* the fields each validator tags its findings with
PortionFields == {"guests", "portion_size"}
CostFields == {"total_cost", "cost_per_guest"}
ServiceFields == {"waiter_count"}
TimingFields == {"timing", "event_date"}
MenuFields == {"menu_items", "menu_composition"}

FindingsOf(report, fields) ==
    Cardinality({k \in DOMAIN report.validations : report.validations[k].field \in fields})

\* the recommendations the Report would list without the [:5]
Uncut(report) ==
    WarningRecommendations(report.validations, 1,
                           PriorityRecommendations(report.validations, 1, <<>>))

\* C27: on the normal path (no validator raised) PortionValidator and
\* MenuValidator contribute exactly one finding each and CostValidator,
\* ServiceValidator and TimingValidator at most one each, so total_validations
\* lies between 2 and 5 and the cut to five recommendations drops none.
C27_OneFindingEach ==
    \A i \in DOMAIN returned :
        LET r == returned[i].report
        IN  ~SystemFinding(r) =>
                /\ FindingsOf(r, PortionFields) = 1
                /\ FindingsOf(r, MenuFields) = 1
                /\ FindingsOf(r, CostFields) <= 1
                /\ FindingsOf(r, ServiceFields) <= 1
                /\ FindingsOf(r, TimingFields) <= 1
                /\ FindingsOf(r, PortionFields \cup MenuFields \cup CostFields
                                  \cup ServiceFields \cup TimingFields) = Len(r.validations)
                /\ r.summary.total_validations \in 2..5
                /\ r.recommendations = Uncut(r)

\* a Report of the normal path with five findings, one per validator, at least
\* three of them with a recommendation that is listed
C27_Witness ==
    /\ Len(returned) = 2
    /\ ~SystemFinding(returned[1].report)
    /\ returned[1].report.summary.total_validations = 5
    /\ Len(returned[1].report.recommendations) >= 3

HasLevel(report, level) ==
    \E k \in DOMAIN report.validations : report.validations[k].level = level

WarningOn(report, fields) ==
    \E k \in DOMAIN report.validations :
        /\ report.validations[k].level = "warning"
        /\ report.validations[k].field \in fields

\* the findings without the WARNINGs of CostValidator, TimingValidator and MenuValidator
WithoutOtherWarnings(report) ==
    SelectSeq(report.validations,
              LAMBDA v : ~(v.level = "warning"
                           /\ v.field \in CostFields \cup TimingFields \cup MenuFields))

\* C28: no Report holds a WARNING on the field 'total_cost'; overall_status is
\* 'warning' exactly when there is no CRITICAL and no ERROR finding and
\* PortionValidator or ServiceValidator reported a WARNING; the WARNINGs of
\* CostValidator, TimingValidator and MenuValidator leave overall_status as it
\* would be without them.
C28_WarningStatus ==
    \A i \in DOMAIN returned :
        LET r == returned[i].report
        IN  /\ ~WarningOn(r, {"total_cost"})
            /\ r.overall_status = "warning" <=>
                    /\ ~HasLevel(r, "critical")
                    /\ ~HasLevel(r, "error")
                    /\ WarningOn(r, PortionFields \cup ServiceFields)
            /\ r.overall_status = _determine_overall_status(WithoutOtherWarnings(r))

\* a Report with WARNINGs of CostValidator, TimingValidator and MenuValidator
\* and nothing worse is 'valid'
C28_Witness ==
    /\ Len(returned) = 1
    /\ LET r == returned[1].report
       IN  /\ r.overall_status = "valid"
           /\ WarningOn(r, {"cost_per_guest"})
           /\ WarningOn(r, TimingFields)
           /\ WarningOn(r, MenuFields)

SendFinished(c) == send_at[c] = "done"
AttemptsMade(c) == Len(attempts[c]) + (IF send_at[c] = "create" THEN 1 ELSE 0)
FailedAttempts(c) == Cardinality({k \in DOMAIN attempts[c] : ~attempts[c][k].ok})

\* at most max_retries attempts; a returned call returns the text of its last
\* attempt, the only one that succeeded; a raising call made three attempts
\* that all failed and raises with the last error
AtMostThreeAttempts ==
    \A c \in Sends :
        /\ AttemptsMade(c) <= 3
        /\ \A k \in DOMAIN attempts[c] : attempts[c][k].ok => k = Len(attempts[c]) /\ SendFinished(c)
        /\ SendFinished(c) =>
              LET n == Len(attempts[c])
              IN  /\ n >= 1
                  /\ IF attempts[c][n].ok
                     THEN send_result[c] = ClaudeResponse(attempts[c][n].text)
                     ELSE /\ n = 3
                          /\ send_result[c] = ClaudeFailed(attempts[c][n].error)
        /\ ~SendFinished(c) => send_result[c] = NoClaudeResult

\* every attempt is counted in _request_count, every failed one in _error_count
CountersFollowAttempts ==
    /\ _request_count = SumOver([c \in Sends |-> AttemptsMade(c)], Sends)
    /\ _error_count = SumOver([c \in Sends |-> FailedAttempts(c)], Sends)
    /\ claude_get_stats.error_count <= claude_get_stats.total_requests

\* a finished call makes no further attempt
NoAttemptAfterEnd ==
    \A c \in Sends :
        SendFinished(c) => /\ attempts'[c] = attempts[c]
                           /\ send_result'[c] = send_result[c]
                           /\ SendFinished(c)'

\* C26: send_message ends after at most 3 API attempts: it returns the response
\* of the first attempt that succeeds and makes no further attempt, after 3
\* failed attempts in a row it raises, and every call that was started ends;
\* every attempt adds one to the request counter and every failed attempt one
\* to the error counter, so error_count <= total_requests at all times.
C26_BoundedRetries ==
    /\ [](AtMostThreeAttempts /\ CountersFollowAttempts)
    /\ [][NoAttemptAfterEnd]_vars
    /\ \A c \in Sends : (send_at[c] = "create") ~> SendFinished(c)

\* one call returned the response of its third attempt, the other raised after
\* three failed attempts
C26_Witness ==
    /\ SendFinished(1)
    /\ Len(attempts[1]) = 3
    /\ send_result[1].outcome = "returned"
    /\ SendFinished(2)
    /\ send_result[2].outcome = "raised"
    /\ _request_count = 6
    /\ _error_count = 5
====
